---- MODULE Spec2Model ----
(***************************************************************************)
(* Model of the context-extraction and annotation-enrichment engine of     *)
(* kalmyk-image-dh-analysis:                                               *)
(*   src/src/deepseek_module.py   cache + retrying annotation client       *)
(*   src/src/extract_contexts.py  sentence-window context extractor        *)
(*                                                                         *)
(* Texts are sequences of chunks: a chunk is either the whitespace chunk   *)
(* WS or a word.  StrOf gives the string a chunk sequence denotes.         *)
(***************************************************************************)
EXTENDS Integers, Sequences, FiniteSets, TLC

VARIABLES
    cache,       \* lines of output/deepseek_responses.jsonl, in file order
    apiKeyEnv,   \* module constant API_KEY (environment, read at import)
    dotenv,      \* the .env file: Absent or Present(lines)
    pc,          \* pc[p]: position of process p inside an annotate call
    task,        \* task[p]: task kind of the current call
    text,        \* text[p]: input text of the current call
    attempt,     \* attempt[p]: loop variable of _call_deepseek
    result,      \* result[p]: value _call_deepseek returned
    ret,         \* ret[p]: value the annotate call returned to its caller
    log,         \* log[p]: events of the current call, in order
    before,      \* history: before[p], what firstRet held when the call began
    consults,    \* history: per (task, text), calls that reached the network
    firstRet,    \* history: per (task, text), value the first call returned
    texts,       \* the documents table handed to extract_ethnic_contexts
    ethnonyms,   \* the term list
    window,      \* the window radius
    epc,         \* position inside extract_ethnic_contexts
    docIdx,      \* 1-based position of `doc` in the table
    sentenceIdx, \* sentence_idx of the loop over the sentences (0-based)
    occurrence_counter,
    records,     \* the rows collected so far
    outFile,     \* the file at output_path: None or Some(rows)
    returned,    \* the tables the finished runs returned, in order
    cacheFile,   \* a cache file of any content: Absent or Present(raw lines)
    lookup,      \* how the last _cached_get over cacheFile ended
    plainCsv,    \* output/contexts.csv: None or Some(table)
    fullCsv,     \* output/contexts_full.csv: None or Some(table)
    corpus,      \* the contexts main extracts from data/texts
    run,         \* the orchestrator pass under way: mode, force, path and
                 \* table read, failed calls so far, cache lines at its start
    contexts,    \* the DataFrame `contexts` of the pass
    missing,     \* the masks of _ensure_column, per annotation column
    opc,         \* position inside main / rerun_deepseek
    rowIdx,      \* 1-based position of the loop over the selected rows
    calls,       \* the annotate calls of the pass, in order
    history,     \* the finished passes, in order
    lexical      \* per row, the columns analyze_contexts set: <<>> before it

clientVars == <<cache, apiKeyEnv, dotenv, pc, task, text, attempt, result, ret,
                log, before, consults, firstRet, before>>

extractVars == <<texts, ethnonyms, window, epc, docIdx, sentenceIdx,
                 occurrence_counter, records, outFile, returned>>

fileVars == <<cacheFile, lookup>>

orchVars == <<plainCsv, fullCsv, corpus, run, contexts, missing, opc, rowIdx,
              calls, history, lexical>>

vars == <<clientVars, extractVars, fileVars, orchVars>>

-----------------------------------------------------------------------------
(* Bounds of the model *)

\* the cache file holds at most this many lines
MaxCache == 1

\* a document has at most this many sentences
MaxSents == 3

\* extract_ethnic_contexts is run at most this many times on its input
MaxRuns == 2

-----------------------------------------------------------------------------
(* Text helpers (Python str operations on chunk sequences) *)

WS == " "

RECURSIVE StrOf(_)
StrOf(s) == IF s = <<>> THEN "" ELSE Head(s) \o StrOf(Tail(s))

RECURSIVE LStrip(_)
LStrip(s) == IF s # <<>> /\ Head(s) = WS THEN LStrip(Tail(s)) ELSE s

RECURSIVE RStrip(_)
RStrip(s) ==
    IF s # <<>> /\ s[Len(s)] = WS THEN RStrip(SubSeq(s, 1, Len(s) - 1)) ELSE s

\* str.strip()
Strip(s) == RStrip(LStrip(s))

\* str.lower() on one chunk, for the words the model uses
LowerChunk(c) ==
    CASE c = "Unavailable" -> "unavailable"
      [] c = "None"        -> "none"
      [] c = "Kalmyk"      -> "kalmyk"
      [] c = "Calmuck"     -> "calmuck"
      [] c = "Ethnographic." -> "ethnographic."
      [] c = "Positive"    -> "positive"
      [] c = "Unclear"     -> "unclear"
      [] OTHER             -> c

\* str.lower()
Lower(s) == [i \in 1..Len(s) |-> LowerChunk(s[i])]

\* Optional[str]
None == [some |-> FALSE, val |-> <<>>]
Some(v) == [some |-> TRUE, val |-> v]

UNAVAILABLE == <<"unavailable">>
\* the marker translate_to_russian returns for an empty or sentinel input
NO_DATA == <<"no data">>

-----------------------------------------------------------------------------
(* Cache: _hash_key, _cached_get, _cached_set *)

\* hashlib.md5: a digest, equal exactly when the hashed strings are equal
MD5(s) == <<"md5", s>>

\* _hash_key(task, text)
HashKey(t, x) == MD5(t \o StrOf(x))

\* mutant of CachedGet: a lookup that never finds the record
CachedGetMiss(lines, key) == None

\* mutant of CachedGet: the last line whose key matches wins
CachedGetLast(lines, key) ==
    LET hits == {i \in 1..Len(lines) : lines[i].key = key}
    IN  IF hits = {} THEN None
        ELSE Some(lines[CHOOSE i \in hits : \A j \in hits : j <= i].response)

\* _cached_get: the response of the first line whose key matches
RECURSIVE CachedGet(_, _)
CachedGet(lines, key) ==
    IF lines = <<>> THEN None
    ELSE IF Head(lines).key = key THEN Some(Head(lines).response)
    ELSE CachedGet(Tail(lines), key)

\* mutant of CachedSet: a failed result is not written
CachedSetSuccessOnly(lines, key, resp) ==
    IF resp = UNAVAILABLE THEN lines
    ELSE Append(lines, [key |-> key, response |-> resp])

\* mutant of CachedSet: the new line is put in front of the file
CachedSetPrepend(lines, key, resp) ==
    <<[key |-> key, response |-> resp]>> \o lines

\* mutant of CachedSet: the file is opened for writing, not for appending
CachedSetTruncate(lines, key, resp) == <<[key |-> key, response |-> resp]>>

\* _cached_set: one {key, response} line appended at the end of the file
CachedSet(lines, key, resp) ==
    Append(lines, [key |-> key, response |-> resp])

-----------------------------------------------------------------------------
(* Credentials: _load_api_key *)

Absent == [exists |-> FALSE, lines |-> <<>>]
Present(ls) == [exists |-> TRUE, lines |-> ls]

\* one line of .env, already split at the first "=" (eq: the line has one)
EnvLine(k, v) == [eq |-> TRUE, key |-> k, value |-> v]
NoEqLine(k) == [eq |-> FALSE, key |-> k, value |-> <<>>]

\* the scan of _load_api_key over the lines of .env
RECURSIVE ScanDotEnv(_)
ScanDotEnv(ls) ==
    IF ls = <<>> THEN None
    ELSE LET l == Head(ls) IN
         IF \/ l.key = <<>> /\ ~l.eq            \* not line
            \/ (Strip(l.key) # <<>> /\ Head(Strip(l.key)) = "#")
            \/ ~l.eq                            \* "=" not in line
         THEN ScanDotEnv(Tail(ls))
         ELSE IF StrOf(Strip(l.key)) = "DEEPSEEK_API_KEY"
              THEN Some(Strip(l.value))
              ELSE ScanDotEnv(Tail(ls))

\* _load_api_key: API_KEY if truthy, else the first DEEPSEEK_API_KEY of .env
LoadApiKey(envKey, file) ==
    IF StrOf(envKey) # "" THEN Some(envKey)
    ELSE IF file.exists THEN ScanDotEnv(file.lines)
    ELSE None

\* `not api_key`
NoApiKey(k) == ~k.some \/ StrOf(k.val) = ""

-----------------------------------------------------------------------------
(* The annotate functions and _cached_request / _call_deepseek, step by step *)

\* retries and delay of _call_deepseek
Retries == 3
Delay == 3

\* events of a call: ev is "get", "load_key", "post", "sleep", "set" or "return";
\* a post carries how the attempt ended (out) and an OK answer's raw content,
\* a sleep carries its duration (d)
Ev(e) == [ev |-> e, out |-> "", raw |-> <<>>, d |-> 0]
PostEv(o, c) == [ev |-> "post", out |-> o, raw |-> c, d |-> 0]
SleepEv(d) == [ev |-> "sleep", out |-> "", raw |-> <<>>, d |-> d]

\* processes; the pipeline runs as process 1
Procs == {1, 2}

\* context texts and prompts handed to the client
ContextTexts == {<<"x">>}
\* values handed to translate_to_russian
TranslateInputs == {<<>>, <<WS, "Unavailable">>, <<"a">>, <<"None">>, NO_DATA}
\* raw `content` of an OK response
Contents == {<<WS, "a", WS>>, <<"b">>}

\* classify_context, detect_sentiment, summarize_context, request_commentary:
\* the task kind each passes to _cached_request
TaskOf(fn) ==
    CASE fn = "classify_context"     -> "classify"
      [] fn = "detect_sentiment"     -> "sentiment"
      [] fn = "summarize_context"    -> "summary"
      [] fn = "translate_to_russian" -> "translate"
      [] fn = "request_commentary"   -> "commentary"

ContextFns == {"classify_context", "detect_sentiment", "summarize_context",
               "request_commentary"}

Pair(t, x) == <<t, x>>
Pairs == ({TaskOf(f) : f \in ContextFns} \X ContextTexts)
             \cup ({"translate"} \X TranslateInputs)

\* translate_to_russian's guard: empty or a sentinel
TranslateShortCircuits(x) ==
    \/ StrOf(x) = ""
    \/ StrOf(Lower(Strip(x))) \in {"unavailable", "none"}

Idle(p) == pc[p] = "idle"

\* room for the line a cache miss appends
CacheHasRoom == Len(cache) < MaxCache
\* the cache file holds a line for the key
KeyCached(key) == \E i \in 1..Len(cache) : cache[i].key = key

\* entry of classify_context / detect_sentiment / summarize_context /
\* request_commentary up to the call of _cached_request
CallAnnotate(p, fn, x) ==
    /\ Idle(p)
    /\ CacheHasRoom \/ KeyCached(HashKey(TaskOf(fn), x))
    /\ task' = [task EXCEPT ![p] = TaskOf(fn)]
    /\ text' = [text EXCEPT ![p] = x]
    /\ pc' = [pc EXCEPT ![p] = "lookup"]
    /\ log' = [log EXCEPT ![p] = <<>>]
    /\ attempt' = [attempt EXCEPT ![p] = 0]
    /\ result' = [result EXCEPT ![p] = None]
    /\ ret' = [ret EXCEPT ![p] = None]
    /\ before' = [before EXCEPT ![p] = firstRet[Pair(TaskOf(fn), x)]]
    /\ UNCHANGED <<cache, apiKeyEnv, dotenv, consults, firstRet>>
    /\ UNCHANGED <<extractVars, fileVars, orchVars>>

\* history: the first value a call for (task, text) returned
NoteReturn(p, t, x, v) ==
    firstRet' = IF firstRet[Pair(t, x)].some THEN firstRet
                ELSE [firstRet EXCEPT ![Pair(t, x)] = Some(v)]

\* translate_to_russian: the short circuit, or the call of _cached_request
CallTranslate(p, x) ==
    /\ Idle(p)
    /\ \/ TranslateShortCircuits(x)
       \/ CacheHasRoom
       \/ KeyCached(HashKey("translate", x))
    /\ task' = [task EXCEPT ![p] = "translate"]
    /\ text' = [text EXCEPT ![p] = x]
    /\ log' = [log EXCEPT ![p] = <<>>]
    /\ attempt' = [attempt EXCEPT ![p] = 0]
    /\ result' = [result EXCEPT ![p] = None]
    /\ IF TranslateShortCircuits(x)
       THEN /\ ret' = [ret EXCEPT ![p] = Some(NO_DATA)]
            /\ pc' = [pc EXCEPT ![p] = "done"]
            /\ NoteReturn(p, "translate", x, NO_DATA)
       ELSE /\ ret' = [ret EXCEPT ![p] = None]
            /\ pc' = [pc EXCEPT ![p] = "lookup"]
            /\ UNCHANGED firstRet
    /\ UNCHANGED <<cache, apiKeyEnv, dotenv, consults>>
    /\ before' = [before EXCEPT ![p] = firstRet[Pair("translate", x)]]
    /\ UNCHANGED <<extractVars, fileVars, orchVars>>

\* _cached_request: key, _cached_get, and the return of a hit
CachedRequestLookup(p) ==
    /\ pc[p] = "lookup"
    /\ LET cached == CachedGet(cache, HashKey(task[p], text[p])) IN
       /\ log' = [log EXCEPT ![p] = Append(@, Ev("get"))]
       /\ IF cached.some
          THEN /\ ret' = [ret EXCEPT ![p] = cached]
               /\ pc' = [pc EXCEPT ![p] = "done"]
               /\ NoteReturn(p, task[p], text[p], cached.val)
          ELSE /\ pc' = [pc EXCEPT ![p] = "call"]
               /\ UNCHANGED <<ret, firstRet>>
    /\ UNCHANGED <<cache, apiKeyEnv, dotenv, task, text, attempt, result,
                   consults, before>>
    /\ UNCHANGED <<extractVars, fileVars, orchVars>>

\* mutant of AfterLoadKey: the attempts start without a credential
AfterLoadKeyUnchecked(k) == IF 0 < Retries THEN "post" ELSE "store"

\* where _call_deepseek goes after _load_api_key
AfterLoadKey(k) ==
    IF NoApiKey(k) THEN "store"
    ELSE IF 0 < Retries THEN "post" ELSE "store"

\* _call_deepseek: _load_api_key and the missing-credential return
CallDeepseekLoadKey(p) ==
    /\ pc[p] = "call"
    /\ LET k == LoadApiKey(apiKeyEnv, dotenv) IN
       /\ pc' = [pc EXCEPT ![p] = AfterLoadKey(k)]
       /\ result' = [result EXCEPT ![p] =
                        IF AfterLoadKey(k) = "store" THEN Some(UNAVAILABLE)
                        ELSE None]
    /\ attempt' = [attempt EXCEPT ![p] = 0]
    /\ log' = [log EXCEPT ![p] = Append(@, Ev("load_key"))]
    /\ UNCHANGED <<cache, apiKeyEnv, dotenv, task, text, ret, consults,
                   firstRet, before>>
    /\ UNCHANGED <<extractVars, fileVars, orchVars>>

\* history: a call for (task, text) reaches the network with its first post
NoteConsult(p) ==
    consults' = IF attempt[p] = 0
                THEN [consults EXCEPT ![Pair(task[p], text[p])] = @ + 1]
                ELSE consults

\* what the try block of an attempt can raise: a timeout or another failure
\* of requests.post, a body that is not JSON, a JSON body of another shape
Raised == {"RequestException", "JSONDecodeError", "IndexError"}

\* `except Exception`: every one of them is caught
Caught(exc) == exc \in Raised

\* a failed attempt: falls through to time.sleep(delay)
FailedPost(p, how, caught) ==
    /\ pc[p] = "post"
    /\ log' = [log EXCEPT ![p] = Append(@, PostEv(how, <<>>))]
    /\ pc' = [pc EXCEPT ![p] = IF caught THEN "sleep" ELSE "raised"]
    /\ NoteConsult(p)
    /\ UNCHANGED <<cache, apiKeyEnv, dotenv, task, text, attempt, result, ret,
                   firstRet, before>>
    /\ UNCHANGED <<extractVars, fileVars, orchVars>>

\* requests.post answers with a status other than 200
PostHttpError(p) == FailedPost(p, "http_error", TRUE)

\* requests.post or the decoding of the answer raises, or the request times out
PostException(p, exc) == FailedPost(p, "exception", Caught(exc))

\* mutant of OkResult: the content is returned as received
OkResultUntrimmed(content) ==
    IF StrOf(Strip(content)) # "" THEN Some(content) ELSE None

\* what an OK answer with this raw content makes of the attempt
OkResult(content) ==
    IF StrOf(Strip(content)) # "" THEN Some(Strip(content)) ELSE None

\* requests.post answers 200 with this raw content
PostOk(p, content) ==
    /\ pc[p] = "post"
    /\ log' = [log EXCEPT ![p] = Append(@, PostEv("ok", content))]
    /\ NoteConsult(p)
    /\ result' = [result EXCEPT ![p] = OkResult(content)]
    /\ pc' = [pc EXCEPT ![p] = IF OkResult(content).some THEN "store"
                                ELSE "sleep"]
    /\ UNCHANGED <<cache, apiKeyEnv, dotenv, task, text, attempt, ret,
                   firstRet, before>>
    /\ UNCHANGED <<extractVars, fileVars, orchVars>>

\* mutant of NextAttempt: one attempt too many
NextAttemptOneMore(n) == IF n < Retries THEN "post" ELSE "store"

\* the loop of _call_deepseek after a failed attempt: goes on while
\* attempts remain
NextAttempt(n) == IF n + 1 < Retries THEN "post" ELSE "store"

\* time.sleep(delay), then the next attempt or the final "unavailable"
SleepStep(p) ==
    /\ pc[p] = "sleep"
    /\ log' = [log EXCEPT ![p] = Append(@, SleepEv(Delay))]
    /\ attempt' = [attempt EXCEPT ![p] = @ + 1]
    /\ pc' = [pc EXCEPT ![p] = NextAttempt(attempt[p])]
    /\ result' = [result EXCEPT ![p] =
                     IF NextAttempt(attempt[p]) = "store"
                     THEN Some(UNAVAILABLE) ELSE None]
    /\ UNCHANGED <<cache, apiKeyEnv, dotenv, task, text, ret, consults,
                   firstRet, before>>
    /\ UNCHANGED <<extractVars, fileVars, orchVars>>

\* _cached_request: _cached_set(key, result)
CachedRequestStore(p) ==
    /\ pc[p] = "store"
    /\ cache' = CachedSet(cache, HashKey(task[p], text[p]), result[p].val)
    /\ log' = [log EXCEPT ![p] = Append(@, Ev("set"))]
    /\ pc' = [pc EXCEPT ![p] = "return"]
    /\ UNCHANGED <<apiKeyEnv, dotenv, task, text, attempt, result, ret,
                   consults, firstRet, before>>
    /\ UNCHANGED <<extractVars, fileVars, orchVars>>

\* _cached_request: return result
CachedRequestReturn(p) ==
    /\ pc[p] = "return"
    /\ ret' = [ret EXCEPT ![p] = result[p]]
    /\ log' = [log EXCEPT ![p] = Append(@, Ev("return"))]
    /\ pc' = [pc EXCEPT ![p] = "done"]
    /\ NoteReturn(p, task[p], text[p], result[p].val)
    /\ UNCHANGED <<cache, apiKeyEnv, dotenv, task, text, attempt, result,
                   consults, before>>
    /\ UNCHANGED <<extractVars, fileVars, orchVars>>

\* the caller takes the returned value and goes on
CallerContinues(p) ==
    /\ pc[p] = "done"
    /\ pc' = [pc EXCEPT ![p] = "idle"]
    /\ task' = [task EXCEPT ![p] = "classify"]
    /\ text' = [text EXCEPT ![p] = <<>>]
    /\ attempt' = [attempt EXCEPT ![p] = 0]
    /\ result' = [result EXCEPT ![p] = None]
    /\ ret' = [ret EXCEPT ![p] = None]
    /\ log' = [log EXCEPT ![p] = <<>>]
    /\ before' = [before EXCEPT ![p] = None]
    /\ UNCHANGED <<cache, apiKeyEnv, dotenv, consults, firstRet>>
    /\ UNCHANGED <<extractVars, fileVars, orchVars>>

\* contents of the .env file
DotEnvFiles ==
    { Absent,
      Present(<<NoEqLine(<<"#", "comment">>),
                EnvLine(<<"OTHER">>, <<"v">>),
                EnvLine(<<"DEEPSEEK_API_KEY">>, <<WS>>)>>),
      Present(<<NoEqLine(<<>>),
                EnvLine(<<"#", "DEEPSEEK_API_KEY">>, <<"old">>),
                EnvLine(<<"DEEPSEEK_API_KEY", WS>>, <<WS, "sk">>)>>) }

\* the .env file is created, edited or removed between calls
\* (.env is read only when API_KEY is unset: its content is tracked only then)
EditDotEnv(file) ==
    /\ \A p \in Procs : Idle(p)
    /\ StrOf(apiKeyEnv) = ""
    /\ file # dotenv
    /\ dotenv' = file
    /\ UNCHANGED <<cache, apiKeyEnv, pc, task, text, attempt, result, ret, log,
                   consults, firstRet, before>>
    /\ UNCHANGED <<extractVars, fileVars, orchVars>>

-----------------------------------------------------------------------------
(* The client as one sequential process *)

\* cache files of well-formed records found at the start
InitCaches ==
    LET r1 == [key |-> HashKey("classify", <<"x">>), response |-> <<"a">>]
        r2 == [key |-> HashKey("classify", <<"x">>), response |-> UNAVAILABLE]
        r3 == [key |-> HashKey("translate", <<"a">>), response |-> <<"b">>]
    IN  {c \in {<<>>, <<r1>>, <<r2>>, <<r3>>, <<r2, r1>>, <<r3, r1>>} :
            Len(c) <= MaxCache}

ClientInit ==
    /\ cache \in InitCaches
    /\ apiKeyEnv \in {<<>>, <<"sk">>}
    /\ dotenv \in IF StrOf(apiKeyEnv) = "" THEN DotEnvFiles ELSE {Absent}
    /\ pc = [p \in Procs |-> "idle"]
    /\ task = [p \in Procs |-> "classify"]
    /\ text = [p \in Procs |-> <<>>]
    /\ attempt = [p \in Procs |-> 0]
    /\ result = [p \in Procs |-> None]
    /\ ret = [p \in Procs |-> None]
    /\ log = [p \in Procs |-> <<>>]
    /\ before = [p \in Procs |-> None]
    /\ consults = [k \in Pairs |-> 0]
    /\ firstRet = [k \in Pairs |-> None]

ClientStep(p) ==
    \/ \E fn \in ContextFns, x \in ContextTexts : CallAnnotate(p, fn, x)
    \/ \E x \in TranslateInputs : CallTranslate(p, x)
    \/ CachedRequestLookup(p)
    \/ CallDeepseekLoadKey(p)
    \/ PostHttpError(p)
    \/ \E exc \in Raised : PostException(p, exc)
    \/ \E c \in Contents \cup {<<WS>>} : PostOk(p, c)
    \/ SleepStep(p)
    \/ CachedRequestStore(p)
    \/ CachedRequestReturn(p)
    \/ CallerContinues(p)

\* the extractor at rest, with nothing to extract
ExtractorIdle ==
    /\ texts = <<>>
    /\ ethnonyms = <<>>
    /\ window = 0
    /\ epc = "idle"
    /\ docIdx = 0
    /\ sentenceIdx = 0
    /\ occurrence_counter = 0
    /\ records = <<>>
    /\ outFile = None
    /\ returned = <<>>

\* no cache file of arbitrary content is under study
CacheFileIdle ==
    /\ cacheFile = Absent
    /\ lookup = [done |-> FALSE, key |-> MD5(""), raised |-> FALSE,
                 value |-> None]

\* no orchestrator pass: nothing extracted, no contexts file
NoRun == [mode |-> "none", force |-> FALSE, path |-> "none", failed |-> 0,
          start |-> [cols |-> {}, rows |-> <<>>], cached |-> 0]

OrchestratorIdle ==
    /\ plainCsv = None
    /\ fullCsv = None
    /\ corpus = <<>>
    /\ run = NoRun
    /\ contexts = NoRun.start
    /\ missing = <<>>
    /\ opc = "idle"
    /\ rowIdx = 0
    /\ calls = <<>>
    /\ history = <<>>
    /\ lexical = <<>>

Init == ClientInit /\ ExtractorIdle /\ CacheFileIdle /\ OrchestratorIdle

Next ==
    \/ ClientStep(1)
    \/ \E f \in DotEnvFiles : EditDotEnv(f)

Spec == Init /\ [][Next]_vars

-----------------------------------------------------------------------------
(* Direct use of the cache: _cached_set and _cached_get with any arguments *)

\* the cache file holds at most this many lines
MaxLines == 3

CacheKeys == {HashKey("classify", <<"x">>), HashKey("sentiment", <<"x">>)}
CacheResponses == {<<"a">>, <<"b">>, UNAVAILABLE}

\* _cached_set(key, resp)
CachedSetCall(key, resp) ==
    /\ Len(cache) < MaxLines
    /\ cache' = CachedSet(cache, key, resp)
    /\ UNCHANGED <<apiKeyEnv, dotenv, pc, task, text, attempt, result, ret,
                   log, before, consults, firstRet>>
    /\ UNCHANGED <<extractVars, fileVars, orchVars>>

\* _cached_get(key), its value kept in ret[1]
CachedGetCall(key) ==
    /\ ret' = [ret EXCEPT ![1] = CachedGet(cache, key)]
    /\ UNCHANGED <<cache, apiKeyEnv, dotenv, pc, task, text, attempt, result,
                   log, before, consults, firstRet>>
    /\ UNCHANGED <<extractVars, fileVars, orchVars>>

InitCache ==
    /\ ClientInit
    /\ ExtractorIdle
    /\ CacheFileIdle
    /\ OrchestratorIdle
    /\ Len(cache) <= 1
    /\ StrOf(apiKeyEnv) # ""

NextCache ==
    \/ \E k \in CacheKeys, r \in CacheResponses : CachedSetCall(k, r)
    \/ \E k \in CacheKeys : CachedGetCall(k)

SpecCache == InitCache /\ [][NextCache]_vars

-----------------------------------------------------------------------------
(* Properties of the client *)

IsPost(e) == e.ev = "post"
Succeeded(e) == e.ev = "post" /\ e.out = "ok" /\ StrOf(Strip(e.raw)) # ""
FailedAttempt(e) == e.ev = "post" /\ ~Succeeded(e)
HasEvent(l, e) == \E i \in 1..Len(l) : l[i].ev = e
PostsUpTo(l, i) == Cardinality({j \in 1..i : l[j].ev = "post"})
CurrentPair == Pair(task[1], text[1])
CurrentLine(resp) == [key |-> HashKey(task[1], text[1]), response |-> resp]

C2_UnavailableIsCached ==
    /\ (pc[1] \in {"return", "done"} /\ result[1] = Some(UNAVAILABLE))
          => (cache # <<>> /\ cache[Len(cache)] = CurrentLine(UNAVAILABLE))
    /\ before[1] = Some(UNAVAILABLE)
          => /\ pc[1] \in {"lookup", "done"}
             /\ \A i \in 1..Len(log[1]) : log[1][i].ev = "get"
             /\ pc[1] = "done" => ret[1] = Some(UNAVAILABLE)

\* a later call returns "unavailable" although a credential is now
\* available; the first call, made without one, wrote the line
C2_Witness ==
    /\ pc[1] = "done"
    /\ task[1] = "sentiment"
    /\ before[1] = Some(UNAVAILABLE)
    /\ ret[1] = Some(UNAVAILABLE)
    /\ consults[CurrentPair] = 0
    /\ ~NoApiKey(LoadApiKey(apiKeyEnv, dotenv))
    /\ cache[Len(cache)] = CurrentLine(UNAVAILABLE)

AttemptEvents(l) == SelectSeq(l, LAMBDA e : e.ev \in {"post", "sleep"})
AllAttemptsFailed(l) ==
    /\ HasEvent(l, "post")
    /\ \A i \in 1..Len(l) : ~Succeeded(l[i])

\* C3: a call whose every attempt failed made exactly Retries attempts, a
\* sleep of Delay after each of them (so between any two), and returned
\* "unavailable".
C3_ExhaustedRetries ==
    (pc[1] = "done" /\ AllAttemptsFailed(log[1]))
        => LET a == AttemptEvents(log[1]) IN
           /\ Len(a) = 2 * Retries
           /\ \A i \in 1..Retries :
                 /\ IsPost(a[2 * i - 1])
                 /\ a[2 * i] = SleepEv(Delay)
           /\ ret[1] = Some(UNAVAILABLE)

\* a call has returned after attempts that failed in each of the three ways
C3_Witness ==
    /\ pc[1] = "done"
    /\ AllAttemptsFailed(log[1])
    /\ \E i, j, k \in 1..Len(log[1]) :
          /\ log[1][i].out = "http_error"
          /\ log[1][j].out = "exception"
          /\ log[1][k].out = "ok"
    /\ ret[1] = Some(UNAVAILABLE)

\* C4: no attempt's failure escapes _call_deepseek; a failed attempt is
\* followed by the sleep of Delay and that by the next attempt while attempts
\* remain; the first successful attempt is the last attempt, its trimmed
\* content is the result, and the result is in the cache before the return.
C4_RetryThenTrimmedResult ==
    /\ pc[1] # "raised"
    /\ \A i \in 1..Len(log[1]) :
          LET e == log[1][i]
              last == i = Len(log[1]) IN
          /\ FailedAttempt(e)
                => IF last THEN pc[1] = "sleep"
                   ELSE log[1][i + 1] = SleepEv(Delay)
          /\ e.ev = "sleep"
                => IF PostsUpTo(log[1], i) < Retries
                   THEN IF last THEN pc[1] = "post"
                        ELSE IsPost(log[1][i + 1])
                   ELSE IF last THEN pc[1] = "store"
                        ELSE log[1][i + 1].ev = "set"
          /\ Succeeded(e)
                => /\ \A j \in 1..Len(log[1]) : IsPost(log[1][j]) => j <= i
                   /\ \A j \in 1..(i - 1) : ~Succeeded(log[1][j])
                   /\ result[1] = Some(Strip(e.raw))
                   /\ IF last THEN pc[1] = "store"
                      ELSE log[1][i + 1].ev = "set"
          /\ e.ev = "return" => (i > 1 /\ log[1][i - 1].ev = "set")
    /\ (pc[1] \in {"return", "done"} /\ result[1].some)
          => (cache # <<>> /\ cache[Len(cache)] = CurrentLine(result[1].val))
    /\ (pc[1] = "done" /\ result[1].some) => ret[1] = result[1]

\* a call has returned the trimmed content of its third attempt, after an
\* exception and an empty answer
C4_Witness ==
    /\ pc[1] = "done"
    /\ Len(log[1]) = 9
    /\ log[1][3].out = "exception"
    /\ log[1][5] = PostEv("ok", <<WS>>)
    /\ log[1][7] = PostEv("ok", <<WS, "a", WS>>)
    /\ ret[1] = Some(<<"a">>)
    /\ cache[Len(cache)] = CurrentLine(<<"a">>)

\* neither API_KEY nor a DEEPSEEK_API_KEY line of .env gives a credential
NoCredential ==
    /\ StrOf(apiKeyEnv) = ""
    /\ \A i \in 1..Len(dotenv.lines) :
          LET l == dotenv.lines[i] IN
          ~(l.eq /\ StrOf(Strip(l.key)) = "DEEPSEEK_API_KEY"
                 /\ StrOf(Strip(l.value)) # "")

\* C5: without a credential a call on an uncached key posts nothing and
\* sleeps nothing: after _load_api_key it stores and returns "unavailable".
C5_NoCredentialNoNetwork ==
    (NoCredential /\ pc[1] # "idle")
        => /\ \A i \in 1..Len(log[1]) : log[1][i].ev \notin {"post", "sleep"}
           /\ HasEvent(log[1], "load_key")
                 => /\ result[1] = Some(UNAVAILABLE)
                    /\ pc[1] \in {"store", "return", "done"}
           /\ (pc[1] = "done" /\ HasEvent(log[1], "load_key"))
                 => ret[1] = Some(UNAVAILABLE)

\* a call on an uncached key has returned "unavailable" without a credential
C5_Witness ==
    /\ pc[1] = "done"
    /\ NoCredential
    /\ dotenv.exists
    /\ log[1] = <<Ev("get"), Ev("load_key"), Ev("set"), Ev("return")>>
    /\ ret[1] = Some(UNAVAILABLE)

\* C6: a _cached_set leaves every line of the file as it was and adds one at
\* the end, and a lookup that returned a value returns the same value after
\* any write, also a write of another value under the same key.
C6_AppendOnlyFirstWins ==
    [][/\ \A i \in 1..Len(cache) : Len(cache') >= i /\ cache'[i] = cache[i]
       /\ \A k \in CacheKeys :
             CachedGet(cache, k).some => CachedGet(cache', k) = CachedGet(cache, k)
       /\ cache' # cache => Len(cache') = Len(cache) + 1]_vars

\* the file holds two values under one key and the lookup returned the first
C6_Witness ==
    /\ Len(cache) = MaxLines
    /\ cache[1].key = cache[Len(cache)].key
    /\ cache[1].response # cache[Len(cache)].response
    /\ ret[1] = Some(cache[1].response)

-----------------------------------------------------------------------------
(* Context extractor: extract_ethnic_contexts *)

\* CONTEXT_WINDOW
CONTEXT_WINDOW == 3

Max(a, b) == IF a >= b THEN a ELSE b
Min(a, b) == IF a <= b THEN a ELSE b

\* sep.join(strings)
RECURSIVE JoinStr(_, _)
JoinStr(sep, ss) ==
    IF ss = <<>> THEN ""
    ELSE IF Len(ss) = 1 THEN ss[1]
    ELSE ss[1] \o sep \o JoinStr(sep, Tail(ss))

\* a Python slice index, negative ones counted from the end, clamped
SliceIndex(x, n) == IF x < 0 THEN Max(x + n, 0) ELSE Min(x, n)

\* seq[start:stop] of Python, positions counted from 0
PySlice(seq, start, stop) ==
    SubSeq(seq, SliceIndex(start, Len(seq)) + 1, SliceIndex(stop, Len(seq)))

\* A sentence is the sequence of its words; its string ends with a full stop.
SentenceStr(words) == JoinStr(" ", words) \o "."

\* tokenize_sentences(doc.text): the sentence strings, in order
TokenizeSentences(txt) == [i \in 1..Len(txt) |-> SentenceStr(txt[i])]

\* hashlib.sha256: a digest, equal exactly when the hashed strings are equal
HashText(str) == <<"sha256", str>>

\* re.IGNORECASE: the word is one of the terms up to case
MatchesTerm(word, terms) ==
    \E i \in 1..Len(terms) : LowerChunk(terms[i]) = LowerChunk(word)

\* mutant of WordMatches: only the first match of the sentence is kept
RECURSIVE WordMatchesFirstOnly(_, _)
WordMatchesFirstOnly(words, terms) ==
    IF words = <<>> THEN <<>>
    ELSE IF MatchesTerm(Head(words), terms)
         THEN <<[group0 |-> Head(words), group1 |-> Head(words)]>>
         ELSE WordMatchesFirstOnly(Tail(words), terms)

\* pattern.finditer(sentence) for a list of terms: one match per word that is
\* a term, left to right
RECURSIVE WordMatches(_, _)
WordMatches(words, terms) ==
    IF words = <<>> THEN <<>>
    ELSE (IF MatchesTerm(Head(words), terms)
          THEN <<[group0 |-> Head(words), group1 |-> Head(words)]>>
          ELSE <<>>) \o WordMatches(Tail(words), terms)

\* pattern.finditer(sentence) for the pattern \b()\b of an empty term list:
\* an empty match at the start and at the end of every word
RECURSIVE BoundaryMatches(_)
BoundaryMatches(words) ==
    IF words = <<>> THEN <<>>
    ELSE <<[group0 |-> "", group1 |-> ""], [group0 |-> "", group1 |-> ""]>>
             \o BoundaryMatches(Tail(words))

\* list(pattern.finditer(sentence)) with pattern = _compile_ethnonym_pattern
Matches(words, terms) ==
    IF terms = <<>> THEN BoundaryMatches(words) ELSE WordMatches(words, terms)

\* mutant of WindowStart: the start is not clipped at 0
WindowStartUnclipped(idx, w) == idx - w

\* start = max(sentence_idx - window, 0)
WindowStart(idx, w) == Max(idx - w, 0)

\* stop = min(sentence_idx + window + 1, len(sentences))
WindowStop(idx, w, n) == Min(idx + w + 1, n)

\* mutant of OccurrenceStart: the counter goes on from the last document
OccurrenceStartKept(counter) == counter

\* occurrence_counter = 0 at the start of every document
OccurrenceStart(counter) == 0

\* mutant of OccurrenceIndex: the rows of a document are numbered from 0
OccurrenceIndexFromZero(counter, k) == counter + k - 1

\* occurrence_counter after the k-th increment of a sentence's matches
OccurrenceIndex(counter, k) == counter + k

\* the record appended for one match
ContextRow(doc, sentences, idx, w, match, occ) ==
    LET start == WindowStart(idx, w)
        stop == WindowStop(idx, w, Len(sentences))
        context_sentences == PySlice(sentences, start, stop)
        context_text == JoinStr(" ", context_sentences)
    IN  [context_id |-> HashText(doc.document_id \o "|" \o ToString(idx)
                                   \o "|" \o match.group0 \o "|" \o context_text),
         document_id |-> doc.document_id,
         author |-> doc.author,
         ethnonym |-> match.group0,
         ethnonym_normalised |-> LowerChunk(match.group1),
         sentence_index |-> idx,
         occurrence_index |-> occ,
         target_sentence |-> sentences[idx + 1],
         context |-> context_text,
         pre_context |-> JoinStr(" ", PySlice(sentences, start, idx)),
         post_context |-> JoinStr(" ", PySlice(sentences, idx + 1, stop)),
         context_sentence_count |-> Len(context_sentences)]

\* the records of all matches of sentence idx, in match order
SentenceRows(doc, idx, w, terms, counter) ==
    LET sentences == TokenizeSentences(doc.text)
        ms == Matches(doc.text[idx + 1], terms)
    IN  [k \in 1..Len(ms) |->
            ContextRow(doc, sentences, idx, w, ms[k], OccurrenceIndex(counter, k))]

\* extract_ethnic_contexts is called; an empty table is returned at once
ExtractCall ==
    /\ epc = "idle"
    /\ Len(returned) < MaxRuns
    /\ IF texts = <<>>
       THEN /\ returned' = Append(returned, <<>>)
            /\ UNCHANGED <<epc, docIdx, records>>
       ELSE /\ epc' = "doc"
            /\ docIdx' = 1
            /\ records' = <<>>
            /\ UNCHANGED returned
    /\ UNCHANGED <<texts, ethnonyms, window, sentenceIdx, occurrence_counter,
                   outFile>>
    /\ UNCHANGED <<clientVars, fileVars, orchVars>>

\* the next document of the loop: tokenized, its counter set; or the loop ends
NextDocument ==
    /\ epc = "doc"
    /\ IF docIdx <= Len(texts)
       THEN /\ epc' = "sentence"
            /\ sentenceIdx' = 0
            /\ occurrence_counter' = OccurrenceStart(occurrence_counter)
       ELSE /\ epc' = "write"
            /\ UNCHANGED <<sentenceIdx, occurrence_counter>>
    /\ UNCHANGED <<texts, ethnonyms, window, docIdx, records, outFile, returned>>
    /\ UNCHANGED <<clientVars, fileVars, orchVars>>

\* one sentence of the document: a record for each of its matches
ScanSentence ==
    /\ epc = "sentence"
    /\ sentenceIdx < Len(texts[docIdx].text)
    /\ LET rows == SentenceRows(texts[docIdx], sentenceIdx, window, ethnonyms,
                                occurrence_counter)
       IN  /\ records' = records \o rows
           /\ occurrence_counter' = occurrence_counter + Len(rows)
    /\ sentenceIdx' = sentenceIdx + 1
    /\ UNCHANGED <<texts, ethnonyms, window, epc, docIdx, outFile, returned>>
    /\ UNCHANGED <<clientVars, fileVars, orchVars>>

\* the sentences of the document are exhausted
EndDocument ==
    /\ epc = "sentence"
    /\ sentenceIdx = Len(texts[docIdx].text)
    /\ docIdx' = docIdx + 1
    /\ epc' = "doc"
    /\ UNCHANGED <<texts, ethnonyms, window, sentenceIdx, occurrence_counter,
                   records, outFile, returned>>
    /\ UNCHANGED <<clientVars, fileVars, orchVars>>

\* contexts.to_csv(output_path)
WriteContexts ==
    /\ epc = "write"
    /\ outFile' = Some(records)
    /\ epc' = "return"
    /\ UNCHANGED <<texts, ethnonyms, window, docIdx, sentenceIdx,
                   occurrence_counter, records, returned>>
    /\ UNCHANGED <<clientVars, fileVars, orchVars>>

\* return contexts
ReturnContexts ==
    /\ epc = "return"
    /\ returned' = Append(returned, records)
    /\ epc' = "idle"
    /\ UNCHANGED <<texts, ethnonyms, window, docIdx, sentenceIdx,
                   occurrence_counter, records, outFile>>
    /\ UNCHANGED <<clientVars, fileVars, orchVars>>

\* sentences of the corpus, as word sequences
SentencePool ==
    { <<"the">>,
      <<"Kalmyk", "calmuck", "kalmyk">>,
      <<"kalmyk", "the", "kalmyk">> }

\* documents texts of at most n sentences
Texts(n) == UNION {[1..k -> SentencePool] : k \in 0..n}

Document(id, who, t) == [document_id |-> id, author |-> who, text |-> t]

\* documents tables: none, one document, or one followed by a short one
Tables ==
    {<<>>}
        \cup {<<Document("d1", "A", t)>> : t \in Texts(MaxSents)}
        \cup {<<Document("d1", "A", t), Document("d2", "B", u)>> :
                 t \in Texts(MaxSents), u \in Texts(1)}

TermLists == {<<>>, <<"calmuck", "kalmyk">>}
Windows == {0, 1, CONTEXT_WINDOW}

\* the client at rest
ClientAtRest ==
    /\ ClientInit
    /\ cache = <<>>
    /\ apiKeyEnv = <<>>
    /\ dotenv = Absent

InitExtract ==
    /\ ClientAtRest
    /\ CacheFileIdle
    /\ OrchestratorIdle
    /\ texts \in Tables
    /\ ethnonyms \in TermLists
    /\ window \in Windows
    /\ epc = "idle"
    /\ docIdx = 0
    /\ sentenceIdx = 0
    /\ occurrence_counter = 0
    /\ records = <<>>
    /\ outFile = None
    /\ returned = <<>>

NextExtract ==
    \/ ExtractCall
    \/ NextDocument
    \/ ScanSentence
    \/ EndDocument
    \/ WriteContexts
    \/ ReturnContexts

SpecExtract == InitExtract /\ [][NextExtract]_vars

-----------------------------------------------------------------------------
(* Properties of the extractor *)

\* the tables produced so far: those returned and the one written
Produced == {returned[k] : k \in 1..Len(returned)}
                \cup (IF outFile.some THEN {outFile.val} ELSE {})

\* the document a row was taken from
DocOf(row) == CHOOSE d \in {texts[k] : k \in 1..Len(texts)} :
                  d.document_id = row.document_id

\* sentences lo+1 .. hi of a document (positions counted from 1), joined
JoinRange(ss, lo, hi) == JoinStr(" ", [k \in 1..(hi - lo) |-> ss[lo + k]])

\* C7: two runs of extract_ethnic_contexts over the same documents, terms and
\* window return the same rows in the same order, context_id and every other
\* column included.
C7_ExtractionDeterministic ==
    \A j, k \in 1..Len(returned) : returned[j] = returned[k]

\* two runs have returned the same table of several rows of two documents
C7_Witness ==
    /\ Len(returned) = 2
    /\ Len(texts) = 2
    /\ Len(returned[2]) >= 4
    /\ returned[2][1].document_id # returned[2][Len(returned[2])].document_id
    /\ returned[1][2].context_id = returned[2][2].context_id

\* C8: the window of a match in sentence i of n is the sentence range
\* [max(i-W,0), min(i+W+1,n)): inside the document, around the target
\* sentence, of at most 2W+1 sentences; pre_context is the part before i,
\* post_context the part after i, and pre_context is empty for i = 0.
C8_WindowClipped ==
    \A row \in {records[k] : k \in 1..Len(records)} :
        LET ss == TokenizeSentences(DocOf(row).text)
            n == Len(ss)
            i == row.sentence_index
            lo == IF i > window THEN i - window ELSE 0
            hi == IF i + window + 1 < n THEN i + window + 1 ELSE n
        IN  /\ 0 <= lo /\ lo <= i /\ i < hi /\ hi <= n
            /\ row.context_sentence_count = hi - lo
            /\ row.context_sentence_count <= 2 * window + 1
            /\ row.context = JoinRange(ss, lo, hi)
            /\ row.target_sentence = ss[i + 1]
            /\ row.pre_context = JoinRange(ss, lo, i)
            /\ row.post_context = JoinRange(ss, i + 1, hi)
            /\ i = 0 => row.pre_context = ""

\* with W = 1 and three sentences: a match in the first sentence with an
\* empty pre_context and a clipped window, one in the second with the full
\* window, one in the last clipped at the end
C8_Witness ==
    /\ window = 1
    /\ \E a, b, c \in 1..Len(records) :
          /\ records[a].sentence_index = 0
          /\ records[a].pre_context = ""
          /\ records[a].post_context # ""
          /\ records[a].context_sentence_count = 2
          /\ records[b].sentence_index = 1
          /\ records[b].context_sentence_count = 3
          /\ records[b].pre_context # ""
          /\ records[c].sentence_index = 2
          /\ records[c].post_context = ""
          /\ records[c].document_id = records[a].document_id
          /\ records[b].document_id = records[a].document_id

\* the rows of a table taken from sentence i of document id, as positions
RowsOfSentence(t, id, i) ==
    {k \in 1..Len(t) : t[k].document_id = id /\ t[k].sentence_index = i}

\* C9: every word of a sentence that matches a term has a row of its own
\* (as many rows carry a spelling as the sentence has matches of it); the
\* rows of one sentence share the window text, follow each other with
\* occurrence_index rising by one from row to row, and differ in context_id
\* when their matched spellings differ.
C9_RowPerMatch ==
    \A t \in Produced :
        /\ (ethnonyms # <<>> /\ Len(texts) > 0) =>
              \A d \in 1..Len(texts) : \A i \in 1..Len(texts[d].text) :
                 LET words == texts[d].text[i] IN
                 \A j \in 1..Len(words) :
                    MatchesTerm(words[j], ethnonyms) =>
                       Cardinality({k \in RowsOfSentence(t, texts[d].document_id, i - 1) :
                                       t[k].ethnonym = words[j]})
                         = Cardinality({m \in 1..Len(words) : words[m] = words[j]})
        /\ \A a, b \in 1..Len(t) :
              (/\ a < b
               /\ t[a].document_id = t[b].document_id
               /\ t[a].sentence_index = t[b].sentence_index)
                 => /\ t[a].context = t[b].context
                    /\ t[b].occurrence_index - t[a].occurrence_index = b - a
                    /\ t[a].ethnonym # t[b].ethnonym
                          => t[a].context_id # t[b].context_id

\* a sentence with two spellings gave the rows 1 and 2 of its document, with
\* one window text and two context_id values
C9_Witness ==
    /\ Len(returned) >= 1
    /\ Len(returned[1]) >= 2
    /\ LET t == returned[1] IN
       /\ t[1].sentence_index = t[2].sentence_index
       /\ t[1].document_id = t[2].document_id
       /\ t[1].ethnonym = "Kalmyk"
       /\ t[2].ethnonym = "calmuck"
       /\ t[1].occurrence_index = 1
       /\ t[2].occurrence_index = 2
       /\ t[1].context = t[2].context
       /\ t[1].context_id # t[2].context_id

\* the number of matches the sentence has for a non-empty term list
MatchCount(words, terms) ==
    Cardinality({j \in 1..Len(words) : MatchesTerm(words[j], terms)})

RECURSIVE SumMatches(_, _)
SumMatches(txt, terms) ==
    IF txt = <<>> THEN 0
    ELSE MatchCount(Head(txt), terms) + SumMatches(Tail(txt), terms)

\* the words of a sentence that match a term, left to right
MatchingWords(words, terms) ==
    SelectSeq(words, LAMBDA w : MatchesTerm(w, terms))

\* C10: in output order the rows of a document carry occurrence_index
\* 1, 2, ..., k, by rising sentence index and, within a sentence, by match
\* position, the count starting again at 1 with every document; k is the
\* number of matches of the document.
C10_OccurrenceIndexPerDocument ==
    \A t \in Produced :
        /\ \A p \in 1..Len(t) :
              t[p].occurrence_index
                 = 1 + Cardinality({q \in 1..(p - 1) :
                                       t[q].document_id = t[p].document_id})
        /\ \A p, q \in 1..Len(t) :
              (p < q /\ t[p].document_id = t[q].document_id)
                 => t[p].sentence_index <= t[q].sentence_index
        /\ ethnonyms # <<>> =>
              /\ \A d \in 1..Len(texts) :
                    Cardinality({p \in 1..Len(t) :
                                    t[p].document_id = texts[d].document_id})
                      = SumMatches(texts[d].text, ethnonyms)
              /\ \A p \in 1..Len(t) :
                    LET words == DocOf(t[p]).text[t[p].sentence_index + 1]
                        nth == 1 + Cardinality(
                                  {q \in 1..(p - 1) :
                                      /\ t[q].document_id = t[p].document_id
                                      /\ t[q].sentence_index = t[p].sentence_index})
                    IN  /\ nth <= Len(MatchingWords(words, ethnonyms))
                        /\ t[p].ethnonym = MatchingWords(words, ethnonyms)[nth]

\* the first document has rows 1..5 over two sentences and the second
\* document starts again at 1
C10_Witness ==
    /\ Len(returned) >= 1
    /\ Len(returned[1]) >= 6
    /\ ethnonyms # <<>>
    /\ LET t == returned[1] IN
       /\ t[5].document_id = "d1"
       /\ t[5].occurrence_index = 5
       /\ t[5].sentence_index > t[1].sentence_index
       /\ t[6].document_id = "d2"
       /\ t[6].occurrence_index = 1
       /\ t[Len(t)].occurrence_index >= 2

-----------------------------------------------------------------------------
(* _cached_get over a cache file of any content *)

MaxRawLines == 2

\* A raw line of the file, by what `line.strip()` and json.loads make of it:
\*   "blank"   empty after strip
\*   "text"    not valid JSON (json.loads raises JSONDecodeError)
\*   "json"    valid JSON that is not an object: a list, a string, a number, null
\*   "object"  a JSON object, with or without the members "key" and "response"
RawLine(kind, hasKey, key, hasResponse, response) ==
    [kind |-> kind, hasKey |-> hasKey, key |-> key,
     hasResponse |-> hasResponse, response |-> response]
BlankLine == RawLine("blank", FALSE, MD5(""), FALSE, <<>>)
TextLine == RawLine("text", FALSE, MD5(""), FALSE, <<>>)
JsonLine == RawLine("json", FALSE, MD5(""), FALSE, <<>>)
ObjectLine(hasKey, key, hasResponse, response) ==
    RawLine("object", hasKey, key, hasResponse, response)
\* the line _cached_set writes
RecordLine(key, response) == ObjectLine(TRUE, key, TRUE, response)

\* the outcome of a lookup: an exception left _cached_get, or it returned
Raises == [raised |-> TRUE, value |-> None]
Returns(v) == [raised |-> FALSE, value |-> v]

\* the loop of _cached_get over the lines of the file
RECURSIVE ScanCacheFile(_, _)
ScanCacheFile(lines, key) ==
    IF lines = <<>> THEN Returns(None)
    ELSE LET l == Head(lines) IN
         CASE l.kind = "blank" -> ScanCacheFile(Tail(lines), key)
           [] l.kind = "text" -> ScanCacheFile(Tail(lines), key)
           \* payload.get on a list, str, int or None: AttributeError, and
           \* only OSError is caught around the loop
           [] l.kind = "json" -> Raises
           [] l.kind = "object" ->
                IF l.hasKey /\ l.key = key
                THEN Returns(IF l.hasResponse THEN Some(l.response) ELSE None)
                ELSE ScanCacheFile(Tail(lines), key)

\* _cached_get(key) over the file
CachedGetFile(file, key) ==
    IF ~file.exists THEN Returns(None) ELSE ScanCacheFile(file.lines, key)

\* _cached_get(key) is called
CachedGetFileCall(key) ==
    /\ lookup' = [done |-> TRUE, key |-> key] @@ CachedGetFile(cacheFile, key)
    /\ UNCHANGED cacheFile
    /\ UNCHANGED <<clientVars, extractVars, orchVars>>

\* lines a cache file may hold
RawLines ==
    {BlankLine, TextLine, JsonLine,
     ObjectLine(FALSE, MD5(""), TRUE, <<"a">>),
     ObjectLine(TRUE, HashKey("classify", <<"x">>), FALSE, <<>>),
     RecordLine(HashKey("classify", <<"x">>), <<"a">>),
     RecordLine(HashKey("classify", <<"x">>), UNAVAILABLE),
     RecordLine(HashKey("sentiment", <<"x">>), <<"b">>)}

CacheFiles ==
    {Absent} \cup {Present(ls) : ls \in UNION {[1..n -> RawLines] :
                                                  n \in 0..MaxRawLines}}

InitCacheFile ==
    /\ ClientAtRest
    /\ ExtractorIdle
    /\ OrchestratorIdle
    /\ cacheFile \in CacheFiles
    /\ lookup = [done |-> FALSE, key |-> MD5(""), raised |-> FALSE,
                 value |-> None]

NextCacheFile == \E k \in CacheKeys : CachedGetFileCall(k)

SpecCacheFile == InitCacheFile /\ [][NextCacheFile]_vars

\* a well-formed record: an object with the members key and response
WellFormed(l) == l.kind = "object" /\ l.hasKey /\ l.hasResponse

\* C20: whatever the file holds, _cached_get raises nothing and returns the
\* response of the first well-formed record with the requested key, or no
\* value if there is none.
C20_MalformedLinesSkipped ==
    lookup.done =>
        LET ls == IF cacheFile.exists THEN cacheFile.lines ELSE <<>>
            hits == {i \in 1..Len(ls) : WellFormed(ls[i]) /\ ls[i].key = lookup.key}
        IN  /\ ~lookup.raised
            /\ lookup.value =
                  IF hits = {} THEN None
                  ELSE Some(ls[CHOOSE i \in hits : \A j \in hits : i <= j].response)

-----------------------------------------------------------------------------
(* Annotation orchestrator: the first run of main and rerun_deepseek.      *)
(* A table is [cols, rows]: cols the annotation columns it has, a row      *)
(* [context, cell]; in a file a cell is a string, in a DataFrame it is     *)
(* None (NaN) or Some(string).                                             *)

MaxRows == 2
\* passes of rerun_deepseek, runs of main, failed annotate calls
MaxPasses == 2
MaxMains == 1
MaxFailures == 1

SourceCols == {"semantic_label", "attitude", "summary_en"}
DerivedCols == {"semantic_label_ru", "attitude_ru", "summary_ru"}
AnnCols == SourceCols \cup DerivedCols

\* the column a translation column is computed from
SourceOf(col) ==
    CASE col = "semantic_label_ru" -> "semantic_label"
      [] col = "attitude_ru"       -> "attitude"
      [] col = "summary_ru"        -> "summary_en"

\* the annotate function that fills a column
FnOf(col) ==
    CASE col = "semantic_label" -> "classify_context"
      [] col = "attitude"       -> "detect_sentiment"
      [] col = "summary_en"     -> "summarize_context"
      [] OTHER                  -> "translate_to_russian"

\* the default of _ensure_column for an absent column
DefaultOf(col) == IF col \in DerivedCols THEN NO_DATA ELSE <<>>

\* strings pd.read_csv reads as NaN (two of its default na_values)
NaStrings == {"", "NA"}
ReadCell(str) == IF StrOf(str) \in NaStrings THEN None ELSE Some(str)
\* to_csv writes NaN as the empty string
WriteCell(v) == IF v.some THEN v.val ELSE <<>>

\* pd.read_csv(contexts_path)
ReadCsv(file) ==
    [cols |-> file.cols,
     rows |-> [i \in 1..Len(file.rows) |->
                 [context |-> file.rows[i].context,
                  cell |-> [c \in AnnCols |->
                              IF c \in file.cols
                              THEN ReadCell(file.rows[i].cell[c]) ELSE None]]]]

\* mutant of ToCsv: the translation columns are left out of the file
ToCsvSourceOnly(df) ==
    [cols |-> df.cols \cap SourceCols,
     rows |-> [i \in 1..Len(df.rows) |->
                 [context |-> df.rows[i].context,
                  cell |-> [c \in AnnCols |->
                              IF c \in df.cols \cap SourceCols
                              THEN WriteCell(df.rows[i].cell[c]) ELSE <<>>]]]]

\* contexts.to_csv(path, index=False)
ToCsv(df) ==
    [cols |-> df.cols,
     rows |-> [i \in 1..Len(df.rows) |->
                 [context |-> df.rows[i].context,
                  cell |-> [c \in AnnCols |->
                              IF c \in df.cols
                              THEN WriteCell(df.rows[i].cell[c]) ELSE <<>>]]]]

\* the table extract_ethnic_contexts makes of the contexts: no annotation
PlainTable(ctxs) ==
    [cols |-> {},
     rows |-> [i \in 1..Len(ctxs) |->
                 [context |-> ctxs[i], cell |-> [c \in AnnCols |-> <<>>]]]]

\* mutant of NeedsUpdate: the "unavailable" sentinel counts as a value
NeedsUpdateNoSentinel(value, force) ==
    \/ force
    \/ ~value.some
    \/ StrOf(Lower(Strip(value.val))) = ""

\* mutant of NeedsUpdate: every cell needs update
NeedsUpdateAlways(value, force) == TRUE

\* _needs_update(value, force)
NeedsUpdate(value, force) ==
    \/ force
    \/ ~value.some
    \/ StrOf(Lower(Strip(value.val))) \in {"", "unavailable"}

\* _ensure_column: the mask it returns
EnsureMask(df, col, force) ==
    [i \in 1..Len(df.rows) |->
        IF col \in df.cols THEN NeedsUpdate(df.rows[i].cell[col], force)
        ELSE TRUE]

\* _ensure_column for the six columns: absent ones are added with the default
EnsureColumns(df) ==
    [cols |-> AnnCols,
     rows |-> [i \in 1..Len(df.rows) |->
                 [context |-> df.rows[i].context,
                  cell |-> [c \in AnnCols |->
                              IF c \in df.cols THEN df.rows[i].cell[c]
                              ELSE Some(DefaultOf(c))]]]]

\* mutant of ToUpdate: every row is taken, selected cell or not
ToUpdateAll(masks, n) == [i \in 1..n |-> i]

\* to_update[to_update].index: the rows with a selected cell, in table order
ToUpdate(masks, n) ==
    SelectSeq([i \in 1..n |-> i], LAMBDA i : \E c \in AnnCols : masks[c][i])

\* the raw content the capability answers with, when it answers
Answer(t, x) ==
    CASE t = "classify"  -> IF x = <<"x">> THEN <<"Ethnographic.">>
                            ELSE <<"Unclear">>
      [] t = "sentiment" -> IF x = <<"x">> THEN <<"Positive", WS, "overall">>
                            ELSE <<"negative">>
      [] t = "summary"   -> <<"sum:">> \o x
      [] OTHER           -> <<"ru:">> \o x

\* _cached_request(task, text, prompt) as one step over the cache `lines`:
\* the cache after it, the value returned, whether requests.post was called
\* and whether the attempts failed; `up` says whether the capability answers
CachedRequest(lines, t, x, up) ==
    LET key == HashKey(t, x)
        cached == CachedGet(lines, key)
        posts == AfterLoadKey(LoadApiKey(apiKeyEnv, dotenv)) = "post"
        res == IF posts /\ up /\ OkResult(Answer(t, x)).some
               THEN OkResult(Answer(t, x)).val
               ELSE UNAVAILABLE
    IN  IF cached.some
        THEN [lines |-> lines, value |-> cached.val, posted |-> FALSE,
              failed |-> FALSE]
        ELSE [lines |-> CachedSet(lines, key, res), value |-> res,
              posted |-> posts, failed |-> posts /\ ~up]

\* classify_context, detect_sentiment, summarize_context and
\* translate_to_russian as one step, by the column they fill
Annotate(lines, col, x, up) ==
    IF FnOf(col) = "translate_to_russian" /\ TranslateShortCircuits(x)
    THEN [lines |-> lines, value |-> NO_DATA, posted |-> FALSE,
          failed |-> FALSE]
    ELSE CachedRequest(lines, TaskOf(FnOf(col)), x, up)

\* the categories of normalize_label, in the order it tries them
Categories ==
    <<"ethnographic", "functional", "evaluative", "religious", "imperial">>

\* `cat in text_lower` for the words the model uses
LabelContains(x, cat) ==
    \E i \in 1..Len(x) : LowerChunk(x[i]) \in {cat, cat \o "."}

\* normalize_label
NormalizeLabel(v) ==
    IF ~v.some THEN <<"unknown">>
    ELSE LET found == SelectSeq(Categories,
                                LAMBDA cat : LabelContains(v.val, cat))
         IN  IF found # <<>> THEN <<found[1]>> ELSE <<"other">>

\* text.split()[0]: the chunks up to the first whitespace
RECURSIVE FirstToken(_)
FirstToken(x) ==
    IF x = <<>> \/ Head(x) = WS THEN <<>>
    ELSE <<Head(x)>> \o FirstToken(Tail(x))

\* normalize_attitude (text.strip().split() is empty for a blank text, and
\* [0] then raises IndexError: see MainNormalise)
NormalizeAttitude(v) ==
    IF ~v.some THEN <<"unknown">> ELSE Lower(FirstToken(Strip(v.val)))

\* contexts.at[row, col] = value
SetCell(df, row, col, value) ==
    [cols |-> df.cols \cup {col},
     rows |-> [df.rows EXCEPT ![row].cell[col] = Some(value)]]

\* the text an annotate call for a cell is given: the context, or for a
\* translation the value its source column holds at that moment
InputOf(df, row, col) ==
    IF col \in SourceCols THEN df.rows[row].context
    ELSE df.rows[row].cell[SourceOf(col)].val

\* for n calls in a row, whether the capability answers each: at most
\* `budget` of them find it down
Availabilities(n, budget) ==
    {ups \in [1..n -> BOOLEAN] :
        Cardinality({k \in 1..n : ~ups[k]}) <= budget}

\* one annotate call for the cell j, its value assigned to the cell; acc is
\* the cache, the table, the calls and the failures so far
ApplyCall(acc, j, up) ==
    LET x == InputOf(acc.table, j.row, j.col)
        r == Annotate(acc.lines, j.col, x, up)
    IN  [lines |-> r.lines,
         table |-> SetCell(acc.table, j.row, j.col, r.value),
         calls |-> Append(acc.calls,
                          [row |-> j.row, col |-> j.col, input |-> x,
                           value |-> r.value, posted |-> r.posted]),
         failed |-> acc.failed + (IF r.failed THEN 1 ELSE 0)]

\* the annotate calls for the cells `jobs`, made one after the other;
\* ups[k] says whether the capability answers call k
RECURSIVE ApplyCalls(_, _, _)
ApplyCalls(acc, jobs, ups) ==
    IF jobs = <<>> THEN acc
    ELSE CHOOSE end \in {ApplyCalls(next, Tail(jobs), Tail(ups)) :
                            next \in {ApplyCall(acc, Head(jobs), Head(ups))}} :
             TRUE

\* the end of a pass, as history keeps it
Finished(r, how, wrote) ==
    [mode |-> r.mode, force |-> r.force, path |-> r.path, end |-> how,
     wrote |-> wrote, start |-> r.start,
     posted |-> \E k \in 1..Len(calls) : calls[k].posted]

\* no pass under way; the failures so far are kept
AtRest(r) == [NoRun EXCEPT !.failed = r.failed]

\* mutant of CellSelected: a translation is assigned only on its own mask
CellSelectedOwnMask(masks, row, col) == masks[col][row]

\* the guards of lines 81-95: whether the cell of a selected row is assigned
CellSelected(masks, row, col) ==
    IF col \in SourceCols THEN masks[col][row]
    ELSE masks[col][row] \/ masks[SourceOf(col)][row]

\* the order of the assignments of one row in rerun_deepseek
RerunOrder == <<"semantic_label", "attitude", "summary_en",
                "semantic_label_ru", "attitude_ru", "summary_ru">>

\* the cells of a row that rerun_deepseek assigns, in order
RowJobs(masks, row) ==
    SelectSeq([k \in 1..Len(RerunOrder) |-> [row |-> row, col |-> RerunOrder[k]]],
              LAMBDA j : CellSelected(masks, j.row, j.col))

\* the finished passes of a mode
PassesOf(mode) == Cardinality({k \in 1..Len(history) : history[k].mode = mode})

\* _resolve_contexts_path: the first candidate that exists
ContextsPath ==
    IF fullCsv.some THEN "full" ELSE IF plainCsv.some THEN "plain" ELSE "none"
FileAt(path) == IF path = "full" THEN fullCsv.val ELSE plainCsv.val

\* rerun_deepseek(force) up to the loop: FileNotFoundError without a file,
\* EmptyDataError of read_csv on the file of an empty extraction, the return
\* when nothing needs update (every table here has the column `context`)
RerunStart(f) ==
    /\ opc = "idle"
    /\ PassesOf("rerun") < MaxPasses
    /\ LET path == ContextsPath
           r0 == [mode |-> "rerun", force |-> f, path |-> path,
                  failed |-> run.failed, start |-> NoRun.start,
                  cached |-> Len(cache)]
       IN  IF path = "none" \/ FileAt(path).rows = <<>>
           THEN /\ history' = Append(history, Finished(r0, "raised", FALSE))
                /\ UNCHANGED <<run, contexts, missing, opc, rowIdx>>
           ELSE LET df == ReadCsv(FileAt(path))
                    masks == [c \in AnnCols |-> EnsureMask(df, c, f)]
                    r == [r0 EXCEPT !.start = FileAt(path)]
                IN  IF ToUpdate(masks, Len(df.rows)) = <<>>
                    THEN /\ history' =
                              Append(history, Finished(r, "returned", FALSE))
                         /\ UNCHANGED <<run, contexts, missing, opc, rowIdx>>
                    ELSE /\ run' = r
                         /\ contexts' = EnsureColumns(df)
                         /\ missing' = masks
                         /\ opc' = "loop"
                         /\ rowIdx' = 1
                         /\ UNCHANGED history
    /\ UNCHANGED <<plainCsv, fullCsv, corpus, calls, lexical>>
    /\ UNCHANGED <<clientVars, extractVars, fileVars>>

\* one turn of the loop of line 79: the selected cells of the next selected
\* row, each assigned the value its annotate call returns
RerunRow ==
    /\ opc = "loop"
    /\ LET sel == ToUpdate(missing, Len(contexts.rows)) IN
       /\ rowIdx <= Len(sel)
       /\ LET jobs == RowJobs(missing, sel[rowIdx]) IN
          \E ups \in Availabilities(Len(jobs), MaxFailures - run.failed) :
             \E acc \in {ApplyCalls([lines |-> cache, table |-> contexts,
                                     calls |-> calls, failed |-> run.failed],
                                    jobs, ups)} :
                 /\ acc.failed <= MaxFailures
                 /\ cache' = acc.lines
                 /\ contexts' = acc.table
                 /\ calls' = acc.calls
                 /\ run' = [run EXCEPT !.failed = acc.failed]
    /\ rowIdx' = rowIdx + 1
    /\ UNCHANGED <<plainCsv, fullCsv, corpus, missing, opc, history, lexical>>
    /\ UNCHANGED <<apiKeyEnv, dotenv, pc, task, text, attempt, result, ret,
                   log, before, consults, firstRet>>
    /\ UNCHANGED <<extractVars, fileVars>>

\* contexts.to_csv(contexts_path) after the loop
RerunWrite ==
    /\ opc = "loop"
    /\ rowIdx > Len(ToUpdate(missing, Len(contexts.rows)))
    /\ IF run.path = "full"
       THEN fullCsv' = Some(ToCsv(contexts)) /\ UNCHANGED plainCsv
       ELSE plainCsv' = Some(ToCsv(contexts)) /\ UNCHANGED fullCsv
    /\ opc' = "written"
    /\ UNCHANGED <<corpus, run, contexts, missing, rowIdx, calls, history,
                   lexical>>
    /\ UNCHANGED <<clientVars, extractVars, fileVars>>

\* the second to_csv, to contexts_full.csv, when another file was read;
\* rerun_deepseek returns
RerunWriteFull ==
    /\ opc = "written"
    /\ fullCsv' = IF run.path # "full" THEN Some(ToCsv(contexts)) ELSE fullCsv
    /\ history' = Append(history, Finished(run, "returned", TRUE))
    /\ opc' = "idle"
    /\ run' = AtRest(run)
    /\ contexts' = NoRun.start
    /\ missing' = <<>>
    /\ rowIdx' = 0
    /\ calls' = <<>>
    /\ UNCHANGED <<plainCsv, corpus, lexical>>
    /\ UNCHANGED <<clientVars, extractVars, fileVars>>

\* clean_contexts keeps the contexts of at least this many words
MinWords == 20

\* len(x.split()) for the contexts of the model: <<"few">> stands for a
\* context of fewer words than MinWords, every other one for a longer text
WordCount(ctx) == IF ctx = <<"few">> THEN 1 ELSE MinWords

\* clean_contexts: df[df["word_count"] >= 20]
CleanContexts(ctxs) == SelectSeq(ctxs, LAMBDA c : WordCount(c) >= MinWords)

\* the order in which main fills the columns (lines 84-98)
MainOrder == <<"semantic_label", "attitude", "summary_en",
               "summary_ru", "attitude_ru", "semantic_label_ru">>

\* main, lines 71-80: extract_ethnic_contexts writes contexts.csv; main
\* returns when no context was found, or when clean_contexts keeps none
MainExtract ==
    /\ opc = "idle"
    /\ PassesOf("main") < MaxMains
    /\ plainCsv' = Some(PlainTable(corpus))
    /\ LET r == [mode |-> "main", force |-> FALSE, path |-> "none",
                 failed |-> run.failed, start |-> PlainTable(corpus),
                 cached |-> Len(cache)]
           kept == CleanContexts(corpus)
       IN  IF corpus = <<>> \/ kept = <<>>
           THEN /\ history' = Append(history, Finished(r, "returned", FALSE))
                /\ UNCHANGED <<run, contexts, opc, rowIdx>>
           ELSE /\ run' = r
                /\ contexts' =
                     [cols |-> {},
                      rows |-> [i \in 1..Len(kept) |->
                                  [context |-> kept[i],
                                   cell |-> [c \in AnnCols |-> None]]]]
                /\ opc' = "apply"
                /\ rowIdx' = 1
                /\ UNCHANGED history
    /\ UNCHANGED <<fullCsv, corpus, missing, calls, lexical>>
    /\ UNCHANGED <<clientVars, extractVars, fileVars>>

\* one progress_apply of lines 84-98: a column filled for every row, in row
\* order (rowIdx counts the columns here)
MainApply ==
    /\ opc = "apply"
    /\ LET col == MainOrder[rowIdx]
           jobs == [i \in 1..Len(contexts.rows) |-> [row |-> i, col |-> col]]
       IN  \E ups \in Availabilities(Len(jobs), MaxFailures - run.failed) :
              \E acc \in {ApplyCalls([lines |-> cache, table |-> contexts,
                                      calls |-> calls, failed |-> run.failed],
                                     jobs, ups)} :
                  /\ acc.failed <= MaxFailures
                  /\ cache' = acc.lines
                  /\ contexts' = acc.table
                  /\ calls' = acc.calls
                  /\ run' = [run EXCEPT !.failed = acc.failed]
    /\ rowIdx' = rowIdx + 1
    /\ opc' = IF rowIdx = Len(MainOrder) THEN "normalise" ELSE "apply"
    /\ UNCHANGED <<plainCsv, fullCsv, corpus, missing, history, lexical>>
    /\ UNCHANGED <<apiKeyEnv, dotenv, pc, task, text, attempt, result, ret,
                   log, before, consults, firstRet>>
    /\ UNCHANGED <<extractVars, fileVars>>

\* lines 100-101: normalize_label and normalize_attitude over their columns;
\* a blank attitude raises IndexError
MainNormalise ==
    /\ opc = "normalise"
    /\ IF \E i \in 1..Len(contexts.rows) :
             LET v == contexts.rows[i].cell["attitude"]
             IN  v.some /\ Strip(v.val) = <<>>
       THEN /\ history' = Append(history, Finished(run, "raised", FALSE))
            /\ opc' = "idle"
            /\ run' = AtRest(run)
            /\ contexts' = NoRun.start
            /\ rowIdx' = 0
            /\ calls' = <<>>
       ELSE /\ contexts' =
                 [contexts EXCEPT !.rows =
                    [i \in 1..Len(contexts.rows) |->
                       [contexts.rows[i] EXCEPT
                          !.cell["semantic_label"] =
                              Some(NormalizeLabel(@)),
                          !.cell["attitude"] =
                              Some(NormalizeAttitude(@))]]]
            /\ opc' = "analyse"
            /\ UNCHANGED <<run, rowIdx, calls, history>>
    /\ UNCHANGED <<plainCsv, fullCsv, corpus, missing, lexical>>
    /\ UNCHANGED <<clientVars, extractVars, fileVars>>

\* what spaCy finds in a context: the adjective and verb lemmas with their
\* counts, most common first, and the GPE entities, sorted
Nlp(ctx) ==
    IF ctx = <<"x">>
    THEN [adjectives |-> <<<<"nomadic", 1>>>>, verbs |-> <<>>,
          toponyms |-> <<"Astrakhan">>]
    ELSE [adjectives |-> <<>>, verbs |-> <<<<"roam", 1>>>>,
          toponyms |-> <<>>]

\* the context_id of a row of the table main holds: set by the extractor, a
\* hash over the context text among others
RowId(row) == HashText(StrOf(row.context))

\* mutant of AnalyzeContexts: the rows labelled "other" get no lemmas
AnalyzeContextsByLabel(df) ==
    [i \in 1..Len(df.rows) |->
        [context_id |-> RowId(df.rows[i])] @@
        (IF df.rows[i].cell["semantic_label"] = Some(<<"other">>)
         THEN [adjectives |-> <<>>, verbs |-> <<>>,
               toponyms |-> Nlp(df.rows[i].context).toponyms]
         ELSE Nlp(df.rows[i].context))]

\* analyze_contexts: the columns context_id, adjectives, verbs and toponyms
\* it assigns; the three maps are keyed by context_id, so a row gets the
\* lists of the last row with its id
AnalyzeContexts(df) ==
    [i \in 1..Len(df.rows) |->
        LET same == {j \in 1..Len(df.rows) :
                        RowId(df.rows[j]) = RowId(df.rows[i])}
            last == CHOOSE j \in same : \A k \in same : k <= j
        IN  [context_id |-> RowId(df.rows[i])] @@ Nlp(df.rows[last].context)]

\* line 103: contexts = analyze_contexts(contexts)
MainAnalyze ==
    /\ opc = "analyse"
    /\ lexical' = AnalyzeContexts(contexts)
    /\ opc' = "persist"
    /\ UNCHANGED <<plainCsv, fullCsv, corpus, run, contexts, missing, rowIdx,
                   calls, history>>
    /\ UNCHANGED <<clientVars, extractVars, fileVars>>

\* lines 104-110: the table, report and visual steps leave the columns as
\* they are (their client calls use task kinds of their own); the enriched
\* table is written to contexts_full.csv
MainPersist ==
    /\ opc = "persist"
    /\ fullCsv' = Some(ToCsv(contexts))
    /\ history' = Append(history, Finished(run, "returned", TRUE))
    /\ opc' = "idle"
    /\ run' = AtRest(run)
    /\ contexts' = NoRun.start
    /\ rowIdx' = 0
    /\ calls' = <<>>
    /\ lexical' = <<>>
    /\ UNCHANGED <<plainCsv, corpus, missing>>
    /\ UNCHANGED <<clientVars, extractVars, fileVars>>

\* the context of the i-th row of the corpus
ContextAt(i) == IF i = 2 THEN <<"y">> ELSE <<"x">>
\* the contexts extracted: up to MaxRows, the last one short or not
Corpora ==
    LET long == {[i \in 1..n |-> ContextAt(i)] : n \in 0..MaxRows}
    IN  long \cup {[c EXCEPT ![Len(c)] = <<"few">>] : c \in long \ {<<>>}}

\* cells of a row annotated by an earlier run: all valid, or with one defect,
\* or left by a fully degraded run
ValidCells ==
    [c \in AnnCols |->
        CASE c = "semantic_label" -> <<"ethnographic">>
          [] c = "attitude"       -> <<"positive">>
          [] c = "summary_en"     -> <<"s">>
          [] OTHER                -> <<"old">>]
DefectCells ==
    {[ValidCells EXCEPT !["semantic_label"] = UNAVAILABLE],
     [ValidCells EXCEPT !["attitude"] = <<WS, "Unavailable", WS>>],
     [ValidCells EXCEPT !["summary_en"] = <<>>],
     [ValidCells EXCEPT !["attitude_ru"] = <<"NA">>],
     [c \in AnnCols |-> IF c \in SourceCols THEN UNAVAILABLE ELSE NO_DATA]}

\* annotated files over a corpus: every row valid, or all but the first or
\* all but the last; and the valid table without its translation columns
AnnotatedTables(ctxs) ==
    LET valid == [cols |-> AnnCols,
                  rows |-> [i \in 1..Len(ctxs) |->
                              [context |-> ctxs[i], cell |-> ValidCells]]]
    IN  {valid, [valid EXCEPT !.cols = SourceCols]}
           \cup {[valid EXCEPT !.rows[d].cell = k] :
                    d \in {1, Len(ctxs)}, k \in DefectCells}

\* no pass was made yet; the cache is empty, a credential is set or not
OrchestratorAtStart ==
    /\ ClientInit
    /\ cache = <<>>
    /\ dotenv = Absent
    /\ ExtractorIdle
    /\ CacheFileIdle
    /\ corpus \in Corpora
    /\ run = NoRun
    /\ contexts = NoRun.start
    /\ missing = <<>>
    /\ opc = "idle"
    /\ rowIdx = 0
    /\ calls = <<>>
    /\ history = <<>>
    /\ lexical = <<>>

\* rerun_deepseek over the files of earlier runs
InitRerun ==
    /\ OrchestratorAtStart
    /\ CleanContexts(corpus) = corpus
    /\ \/ plainCsv = None /\ fullCsv = None
       \/ /\ corpus # <<>>
          /\ plainCsv = Some(PlainTable(corpus))
          /\ fullCsv \in {None} \cup {Some(t) : t \in AnnotatedTables(corpus)}

NextRerun ==
    \/ \E f \in BOOLEAN : RerunStart(f)
    \/ RerunRow
    \/ RerunWrite
    \/ RerunWriteFull

SpecRerun == InitRerun /\ [][NextRerun]_vars

\* a project without output files: main and rerun_deepseek in any order
InitOrch ==
    /\ OrchestratorAtStart
    /\ plainCsv = None
    /\ fullCsv = None

NextOrch ==
    \/ \E f \in BOOLEAN : RerunStart(f)
    \/ RerunRow
    \/ RerunWrite
    \/ RerunWriteFull
    \/ MainExtract
    \/ MainApply
    \/ MainNormalise
    \/ MainAnalyze
    \/ MainPersist

SpecOrch == InitOrch /\ [][NextOrch]_vars

-----------------------------------------------------------------------------
(* Two processes that use the client at once, over one cache file.         *)

\* the annotate functions the two processes call, with the same text
RaceFns == {"classify_context", "detect_sentiment"}

\* a step of process p
RaceStep(p) ==
    \/ \E fn \in RaceFns, x \in ContextTexts : CallAnnotate(p, fn, x)
    \/ CachedRequestLookup(p)
    \/ CallDeepseekLoadKey(p)
    \/ PostHttpError(p)
    \/ \E c \in Contents : PostOk(p, c)
    \/ SleepStep(p)
    \/ CachedRequestStore(p)
    \/ CachedRequestReturn(p)
    \/ CallerContinues(p)

\* both processes idle, the cache file empty or not there
InitRace ==
    /\ ClientInit
    /\ cache = <<>>
    /\ ExtractorIdle
    /\ CacheFileIdle
    /\ OrchestratorIdle

NextRace == \E p \in Procs : RaceStep(p)

SpecRace == InitRace /\ [][NextRace]_vars

\* the sentinel values: "unavailable" and the "no data" marker
IsSentinel(x) == StrOf(Lower(Strip(x))) \in {StrOf(UNAVAILABLE), StrOf(NO_DATA)}

\* C19: translate_to_russian returns the "no data" marker with no cache read,
\* no cache write and no use of the capability when its input is empty or a
\* sentinel ("unavailable" or the marker itself); every other input goes to
\* _cached_request under task kind translate, which starts with the lookup.
C19_TranslateSentinelShortCircuit ==
    (task[1] = "translate" /\ pc[1] = "done")
        => IF StrOf(text[1]) = "" \/ IsSentinel(text[1])
           THEN log[1] = <<>> /\ ret[1] = Some(NO_DATA)
           ELSE log[1] # <<>> /\ log[1][1].ev = "get"

\* C11: with an empty term list the pattern matches nothing: every table the
\* extractor returns or writes has no row.
C11_EmptyTermListNoRows ==
    ethnonyms = <<>> => \A t \in Produced : t = <<>>

\* C12: whenever extract_ethnic_contexts has returned, the table it returned
\* last is the content of the output file.
C12_WrittenBeforeReturn ==
    (epc = "idle" /\ returned # <<>>)
        => (outFile.some /\ outFile.val = returned[Len(returned)])

\* a value that is null/NaN, or whose trimmed lowercase form is empty or the
\* "unavailable" sentinel
Invalid(v) ==
    ~v.some \/ StrOf(Lower(Strip(v.val))) \in {"", StrOf(UNAVAILABLE)}

\* the cell (row, col) of the table a pass started from calls for an update
CallsForUpdate(start, force, row, col) ==
    \/ force
    \/ col \notin start.cols
    \/ Invalid(ReadCell(start.rows[row].cell[col]))

\* some annotate call of the pass under way was made for the cell
Recomputed(row, col) ==
    \E k \in 1..Len(calls) : calls[k].row = row /\ calls[k].col = col

\* C13: in a pass of rerun_deepseek a cell of an annotation column is selected
\* if and only if force is set, or the column was absent from the table read,
\* or the value read is null/NaN, or its trimmed lowercase form is "" or
\* "unavailable"; an absent column is added to the table; once the loop is
\* over a source cell was recomputed exactly when it was selected; and a pass
\* that returned early had no such cell.
C13_SelectedIffNeedsUpdate ==
    /\ (run.mode = "rerun" /\ opc \in {"loop", "written"}) =>
          \A i \in 1..Len(contexts.rows) : \A c \in AnnCols :
             /\ missing[c][i] <=> CallsForUpdate(run.start, run.force, i, c)
             /\ c \in contexts.cols
             /\ (c \notin run.start.cols /\ rowIdx = 1)
                   => contexts.rows[i].cell[c] = Some(DefaultOf(c))
             /\ (opc = "written" /\ c \in SourceCols)
                   => (Recomputed(i, c) <=> missing[c][i])
    /\ \A k \in 1..Len(history) :
          (history[k].mode = "rerun" /\ history[k].end = "returned"
              /\ ~history[k].wrote) =>
             \A i \in 1..Len(history[k].start.rows) : \A c \in AnnCols :
                ~CallsForUpdate(history[k].start, history[k].force, i, c)

\* an incremental pass is over: it selected a cell that held " Unavailable "
\* and recomputed it, and left a valid cell of another row unselected
C13_Witness ==
    /\ run.mode = "rerun" /\ ~run.force /\ opc = "written"
    /\ \E i, j \in 1..Len(contexts.rows) :
          /\ i # j
          /\ run.start.rows[i].cell["attitude"] = <<WS, "Unavailable", WS>>
          /\ missing["attitude"][i] /\ Recomputed(i, "attitude")
          /\ ~missing["attitude"][j] /\ ~Recomputed(j, "attitude")

\* the cells the annotate calls of the pass under way were made for
RecomputedCells == {<<calls[k].row, calls[k].col>> : k \in 1..Len(calls)}

\* neither the cell (row, col) nor the cell it is derived from is selected
Untouched(row, col) ==
    /\ ~missing[col][row]
    /\ col \in DerivedCols => ~missing[SourceOf(col)][row]

\* a table with all six columns in which the semantic_label of row d is the
\* sentinel and every other annotation cell is valid
OnlyLabelSentinel(start, d) ==
    /\ start.cols = AnnCols
    /\ d \in 1..Len(start.rows)
    /\ start.rows[d].cell["semantic_label"] = UNAVAILABLE
    /\ \A i \in 1..Len(start.rows) : \A c \in AnnCols :
          <<i, c>> # <<d, "semantic_label">>
              => ~Invalid(ReadCell(start.rows[i].cell[c]))

\* C14: an incremental pass has the rows of the table it read, in the same
\* order; a cell that is not selected and whose source cell is not selected
\* is not recomputed and keeps its value, in the table and in the file written;
\* and for a table whose only invalid cell is the sentinel semantic_label of
\* one row the pass recomputes that row's semantic_label and
\* semantic_label_ru and nothing else.
C14_OnlySelectedCellsChange ==
    (run.mode = "rerun" /\ opc \in {"loop", "written"}) =>
        LET n == Len(run.start.rows)
        IN  /\ Len(contexts.rows) = n
            /\ \A i \in 1..n :
                  /\ contexts.rows[i].context = run.start.rows[i].context
                  /\ \A c \in AnnCols : Untouched(i, c) =>
                        /\ <<i, c>> \notin RecomputedCells
                        /\ contexts.rows[i].cell[c]
                              = ReadCell(run.start.rows[i].cell[c])
            /\ opc = "written" =>
                  LET out == FileAt(run.path) IN
                  /\ Len(out.rows) = n
                  /\ \A i \in 1..n :
                        /\ out.rows[i].context = run.start.rows[i].context
                        /\ \A c \in AnnCols : Untouched(i, c) =>
                              out.rows[i].cell[c] = run.start.rows[i].cell[c]
                  /\ \A d \in 1..n :
                        (~run.force /\ OnlyLabelSentinel(run.start, d)) =>
                            RecomputedCells = {<<d, "semantic_label">>,
                                               <<d, "semantic_label_ru">>}

\* an incremental pass over two rows, the label of one of them the sentinel,
\* has written the file: the label and its translation changed in that row
\* and the other row is as it was
C14_Witness ==
    /\ run.mode = "rerun" /\ ~run.force /\ opc = "written"
    /\ Len(contexts.rows) = 2
    /\ \E d \in 1..2 :
          /\ OnlyLabelSentinel(run.start, d)
          /\ FileAt(run.path).rows[d].cell["semantic_label"] # UNAVAILABLE
          /\ FileAt(run.path).rows[d].cell["semantic_label_ru"]
                # run.start.rows[d].cell["semantic_label_ru"]
          /\ FileAt(run.path).rows[3 - d] = run.start.rows[3 - d]

\* C16: in a pass of rerun_deepseek every recomputation of a source cell is
\* followed, in the same row, by a recomputation of the translation derived
\* from it, whose input is the new source value; a translation is recomputed
\* exactly when it or its source cell is selected, from the value of the source
\* read when the source is not selected; and a source cell is recomputed only
\* on its own mask, from the context.
C16_DerivedFollowsSource ==
    (run.mode = "rerun" /\ opc \in {"loop", "written"}) =>
        /\ \A k \in 1..Len(calls) :
              IF calls[k].col \in SourceCols
              THEN /\ missing[calls[k].col][calls[k].row]
                   /\ calls[k].input = contexts.rows[calls[k].row].context
                   /\ \E j \in (k + 1)..Len(calls) :
                         /\ calls[j].row = calls[k].row
                         /\ calls[j].col \in DerivedCols
                         /\ SourceOf(calls[j].col) = calls[k].col
                         /\ calls[j].input = calls[k].value
              ELSE LET src == SourceOf(calls[k].col) IN
                   /\ missing[calls[k].col][calls[k].row]
                         \/ missing[src][calls[k].row]
                   /\ ~missing[src][calls[k].row] =>
                         calls[k].input =
                            run.start.rows[calls[k].row].cell[src]
        /\ opc = "written" =>
              \A i \in 1..Len(contexts.rows) : \A c \in DerivedCols :
                  (missing[c][i] \/ missing[SourceOf(c)][i])
                      => <<i, c>> \in RecomputedCells

\* an incremental pass recomputed a source cell and then its translation,
\* which held a valid value, from the new source value
C16_Witness ==
    /\ run.mode = "rerun" /\ ~run.force /\ opc = "written"
    /\ \E k, j \in 1..Len(calls) :
          /\ k < j
          /\ calls[k].col = "semantic_label"
          /\ calls[j].col = "semantic_label_ru"
          /\ calls[j].row = calls[k].row
          /\ ~missing["semantic_label_ru"][calls[j].row]
          /\ calls[j].input = calls[k].value
          /\ calls[j].input # run.start.rows[calls[j].row].cell["semantic_label"]
          /\ contexts.rows[calls[j].row].cell["semantic_label_ru"]
                = Some(calls[j].value)

\* the values a normalised semantic_label can have
NormalLabels == {<<Categories[k]>> : k \in 1..Len(Categories)} \cup {<<"other">>}

\* the cell a call was made for holds the normalised form of the raw answer
\* the call returned
HoldsNormalised(cell, call) ==
    /\ call.col = "semantic_label" =>
          cell \in NormalLabels /\ cell = NormalizeLabel(Some(call.value))
    /\ call.col = "attitude" =>
          cell = Lower(FirstToken(Strip(call.value)))

\* C17: what a pass of either mode is about to persist (main) or has written
\* (rerun_deepseek) holds, for every semantic_label it computed, one of the
\* five categories or "other", chosen by containment in the raw answer, and for
\* every attitude it computed the first token of the raw answer in lowercase.
C17_WrittenLabelsNormalised ==
    /\ (run.mode = "main" /\ opc = "persist") =>
          \A k \in 1..Len(calls) :
             HoldsNormalised(WriteCell(contexts.rows[calls[k].row].cell[calls[k].col]),
                             calls[k])
    /\ (run.mode = "rerun" /\ opc = "written") =>
          \A k \in 1..Len(calls) :
             HoldsNormalised(FileAt(run.path).rows[calls[k].row].cell[calls[k].col],
                             calls[k])

\* the first pass of the project was a run of main without a credential, over
\* a corpus with contexts of 20 words or more, and nothing ran since
DegradedFirstRunOver ==
    /\ NoCredential
    /\ CleanContexts(corpus) # <<>>
    /\ opc = "idle"
    /\ Len(history) = 1
    /\ history[1].mode = "main"

\* C18: a first run of main without the capability and with an empty cache
\* returns normally and has persisted a table with a row per context, holding
\* "unavailable" in semantic_label, attitude and summary_en and the "no data"
\* marker in semantic_label_ru, attitude_ru and summary_ru.
C18_DegradedRunAllSentinels ==
    DegradedFirstRunOver =>
        /\ history[1].end = "returned"
        /\ history[1].wrote
        /\ ~history[1].posted
        /\ fullCsv.some
        /\ fullCsv.val.cols = AnnCols
        /\ Len(fullCsv.val.rows) = Len(CleanContexts(corpus))
        /\ \A i \in 1..Len(fullCsv.val.rows) : \A c \in AnnCols :
              fullCsv.val.rows[i].cell[c] =
                  IF c \in SourceCols THEN UNAVAILABLE ELSE NO_DATA

\* every annotation cell of a file is there and valid
AllValid(start) ==
    /\ start.cols = AnnCols
    /\ \A i \in 1..Len(start.rows) : \A c \in AnnCols :
          ~Invalid(ReadCell(start.rows[i].cell[c]))

\* an incremental pass of rerun_deepseek has written its file, and the pass
\* before it wrote the file it read
SecondRunWritten ==
    /\ run.mode = "rerun" /\ ~run.force /\ opc = "written"
    /\ history # <<>>
    /\ history[Len(history)].wrote

\* the pass under way posted no request and its file is the file it read
QuietAndUnchanged ==
    /\ \A k \in 1..Len(calls) : ~calls[k].posted
    /\ FileAt(run.path) = run.start

\* C15 as stated: an incremental pass run on the output of the pass before
\* it, with the cache that pass left, posts no request and writes the values
\* it read.
C15_SecondRunIdempotent ==
    SecondRunWritten => QuietAndUnchanged

\* C15, amended: an incremental pass of rerun_deepseek on the output of the
\* pass before it returns before its loop, with no call and no write, when
\* every annotation value of that output is valid; and when the pass before it
\* was a pass of rerun_deepseek it posts no request and writes the values it
\* read, whatever they are.
C15_SecondRunIdempotentWhenValid ==
    /\ (SecondRunWritten /\ history[Len(history)].mode = "rerun")
           => QuietAndUnchanged
    /\ \A k \in 2..Len(history) :
          (history[k].mode = "rerun" /\ ~history[k].force
              /\ history[k - 1].wrote /\ AllValid(history[k].start)) =>
             /\ history[k].end = "returned"
             /\ ~history[k].wrote
             /\ ~history[k].posted

\* main annotated a corpus through the capability, every value it left is
\* valid, and an incremental pass on its output returned before the loop
C15_Witness ==
    /\ opc = "idle"
    /\ Len(history) = 2
    /\ history[1].mode = "main" /\ history[1].wrote /\ history[1].posted
    /\ history[2].mode = "rerun" /\ ~history[2].force
    /\ AllValid(history[2].start)
    /\ history[2].end = "returned" /\ ~history[2].wrote
    /\ cache # <<>>

\* the rank of a task kind in the order classify, sentiment, summarize, then
\* the translations
TaskRank(col) ==
    CASE col = "semantic_label" -> 1
      [] col = "attitude"       -> 2
      [] col = "summary_en"     -> 3
      [] OTHER                  -> 4

\* C21: the annotate calls of a pass are issued row by row: between two calls
\* for one context there is no call for another context, and within a
\* context classify, sentiment and summarize come in this order, before the
\* translations; in main as in rerun_deepseek.
C21_CallsRowByRow ==
    \A k, l \in 1..Len(calls) :
        (k < l /\ calls[k].row = calls[l].row) =>
            /\ \A j \in k..l : calls[j].row = calls[k].row
            /\ TaskRank(calls[k].col) <= TaskRank(calls[l].col)

\* the lines of a file are still there, in place, in a later state of it
IsPrefixOf(old, new) ==
    /\ Len(old) <= Len(new)
    /\ \A i \in 1..Len(old) : new[i] = old[i]

\* C22: while a pass of rerun_deepseek is in its loop, whatever the number of
\* rows it has processed, the contexts file it read holds what it held when
\* the pass started; no step that leads into or stays in the loop writes a
\* contexts file, and every such step leaves the records of the cache in
\* place, with new records appended at most.
C22_NoWriteBeforeEnd ==
    /\ [](run.mode = "rerun" /\ opc = "loop"
             => ContextsPath = run.path /\ FileAt(run.path) = run.start)
    /\ [][opc' = "loop"
             => /\ plainCsv' = plainCsv
                /\ fullCsv' = fullCsv
                /\ IsPrefixOf(cache, cache')]_vars

\* an incremental pass has processed one of two selected rows and appended
\* to the cache: the table in memory has new values, the file has not
C22_Witness ==
    /\ run.mode = "rerun" /\ opc = "loop"
    /\ rowIdx = 2
    /\ Len(ToUpdate(missing, Len(contexts.rows))) = 2
    /\ cache # <<>>
    /\ ToCsv(contexts) # FileAt(run.path)
    /\ FileAt(run.path) = run.start

\* the event is in the log of the call process p is in
Logged(p, e) == \E i \in 1..Len(log[p]) : log[p][i].ev = e

\* the key of the call process p is in
KeyOf(p) == HashKey(task[p], text[p])

\* the positions of the records of the cache under a key
RecordsOf(key) == {i \in 1..Len(cache) : cache[i].key = key}

\* both processes are in a call for the same key and both missed the cache:
\* each looked it up before the other wrote
BothMissed ==
    /\ pc[1] # "idle" /\ pc[2] # "idle"
    /\ KeyOf(1) = KeyOf(2)
    /\ Logged(1, "load_key") /\ Logged(2, "load_key")

\* C23: two processes that both miss the cache for one key both go through
\* _call_deepseek (and post a request when there is a credential) and both
\* append: when both have returned the cache holds two records for the key;
\* no step removes or alters a record; and a call that finds the key returns
\* the response of the first record under it, whatever the later one holds.
C23_RaceAppendsTwiceFirstWins ==
    /\ []((BothMissed /\ pc[1] = "done" /\ pc[2] = "done") =>
             /\ Logged(1, "set") /\ Logged(2, "set")
             /\ Cardinality(RecordsOf(KeyOf(1))) = 2
             /\ ~NoCredential => Logged(1, "post") /\ Logged(2, "post"))
    /\ [](\A p \in Procs :
             (pc[p] = "done" /\ log[p] = <<Ev("get")>>) =>
                 /\ RecordsOf(KeyOf(p)) # {}
                 /\ ret[p] = Some(cache[CHOOSE i \in RecordsOf(KeyOf(p)) :
                                   \A j \in RecordsOf(KeyOf(p)) : i <= j].response))
    /\ [][IsPrefixOf(cache, cache')]_vars

\* after a race the cache holds two records for one key with different
\* responses, and a later call for the key has returned the first of them
C23_Witness ==
    /\ Len(cache) = 2
    /\ cache[1].key = cache[2].key
    /\ cache[1].response # cache[2].response
    /\ \E p \in Procs :
          /\ pc[p] = "done" /\ log[p] = <<Ev("get")>>
          /\ KeyOf(p) = cache[1].key
          /\ ret[p] = Some(cache[1].response)

\* a run of main has persisted the enriched table and nothing ran since
MainPersisted ==
    /\ opc = "idle"
    /\ history # <<>>
    /\ history[Len(history)].mode = "main"
    /\ history[Len(history)].wrote

\* C24: after a run of main that persisted the enriched table, contexts.csv
\* holds a row per context extracted, and contexts_full.csv holds the same
\* rows in the same order, with the annotation columns added.
C24_RowsPreservedThroughMain ==
    MainPersisted =>
        /\ plainCsv.some /\ fullCsv.some
        /\ plainCsv.val = history[Len(history)].start
        /\ Len(plainCsv.val.rows) = Len(corpus)
        /\ plainCsv.val.cols \subseteq fullCsv.val.cols
        /\ Len(fullCsv.val.rows) = Len(plainCsv.val.rows)
        /\ \A i \in 1..Len(plainCsv.val.rows) :
              fullCsv.val.rows[i].context = plainCsv.val.rows[i].context

\* C26: in a table extract_ethnic_contexts returns for a non-empty term list
\* no two rows carry the same context_id.
C26_ContextIdIsKey ==
    ethnonyms # <<>> =>
        \A t \in Produced : \A a, b \in 1..Len(t) :
            a # b => t[a].context_id # t[b].context_id

\* the table with its annotation columns taken away: what the pass started
\* from
WithoutAnnotation(df) ==
    [cols |-> {},
     rows |-> [i \in 1..Len(df.rows) |->
                 [context |-> df.rows[i].context,
                  cell |-> [c \in AnnCols |-> None]]]]

\* C25: in main, after the annotation pass, analyze_contexts sets for every
\* row the columns adjectives, verbs and toponyms to what it would have set
\* on the table without its annotation columns (so it gives the same before
\* and after the pass), and its step leaves the rows and every annotation
\* cell of the table as they were.
C25_AnalysisIndependent ==
    /\ []((run.mode = "main" /\ opc = "persist") =>
             /\ Len(lexical) = Len(contexts.rows)
             /\ lexical = AnalyzeContexts(WithoutAnnotation(contexts))
             /\ \A i \in 1..Len(lexical) :
                   DOMAIN lexical[i] =
                      {"context_id", "adjectives", "verbs", "toponyms"})
    /\ [][(opc = "analyse" /\ opc' = "persist") => contexts' = contexts]_vars

\* main has annotated two contexts, one labelled "other", and analysed
\* them: the two rows have lexical columns of their own
C25_Witness ==
    /\ run.mode = "main" /\ opc = "persist"
    /\ Len(contexts.rows) = 2
    /\ Len(lexical) = 2
    /\ lexical[1].adjectives # <<>>
    /\ lexical[2].verbs # <<>>
    /\ contexts.rows[1].cell["semantic_label"] = Some(<<"ethnographic">>)
    /\ contexts.rows[2].cell["semantic_label"] = Some(<<"other">>)

\* the cache as it was when the pass under way started
CacheAtStart == SubSeq(cache, 1, run.cached)

\* the key an annotate call of the orchestrator hands to _cached_request
CallKey(call) == HashKey(TaskOf(FnOf(call.col)), call.input)

\* the call returned before _cached_request: a translation of an empty or
\* "unavailable" value
ShortCircuited(call) ==
    call.col \in DerivedCols /\ TranslateShortCircuits(call.input)

\* the first record of the lines under the key, if there is one
FirstRecord(lines, key) ==
    LET hits == {i \in 1..Len(lines) : lines[i].key = key}
    IN  IF hits = {} THEN None
        ELSE Some(lines[CHOOSE i \in hits : \A j \in hits : i <= j].response)

\* C27: in a forced pass of rerun_deepseek every cell is selected, and a
\* call whose key was in the cache when the pass started posts no request and
\* assigns the response stored first under the key, "unavailable" included;
\* when that is so for every call that reaches _cached_request, the pass
\* posts nothing and appends nothing to the cache.
C27_ForcedPassServedFromCache ==
    (run.mode = "rerun" /\ run.force /\ opc \in {"loop", "written"}) =>
        /\ \A i \in 1..Len(contexts.rows) : \A c \in AnnCols : missing[c][i]
        /\ \A k \in 1..Len(calls) :
              LET hit == FirstRecord(CacheAtStart, CallKey(calls[k])) IN
              (~ShortCircuited(calls[k]) /\ hit.some) =>
                  /\ ~calls[k].posted
                  /\ calls[k].value = hit.val
                  /\ opc = "written" =>
                        FileAt(run.path).rows[calls[k].row].cell[calls[k].col]
                            = hit.val
        /\ (\A k \in 1..Len(calls) :
               ShortCircuited(calls[k])
                   \/ FirstRecord(CacheAtStart, CallKey(calls[k])).some)
              => /\ cache = CacheAtStart
                 /\ \A k \in 1..Len(calls) : ~calls[k].posted

\* a forced pass with a credential set has written its file; every key it
\* asked for was cached, one of them with "unavailable", which is what the
\* cell holds again
C27_Witness ==
    /\ run.mode = "rerun" /\ run.force /\ opc = "written"
    /\ ~NoCredential
    /\ calls # <<>>
    /\ cache = CacheAtStart
    /\ \A k \in 1..Len(calls) :
          ShortCircuited(calls[k])
              \/ FirstRecord(CacheAtStart, CallKey(calls[k])).some
    /\ \E k \in 1..Len(calls) :
          /\ calls[k].col \in SourceCols
          /\ calls[k].value = UNAVAILABLE
          /\ FileAt(run.path).rows[calls[k].row].cell[calls[k].col] = UNAVAILABLE

\* some cell of the table the pass under way read calls for an update
SomeCellCallsForUpdate ==
    \E i \in 1..Len(run.start.rows) : \E c \in AnnCols :
        CallsForUpdate(run.start, run.force, i, c)

\* the file holds every row and every annotation column of the table in
\* memory, cell by cell
HoldsTable(file, df) ==
    /\ file.cols = AnnCols
    /\ Len(file.rows) = Len(df.rows)
    /\ \A i \in 1..Len(df.rows) :
          /\ file.rows[i].context = df.rows[i].context
          /\ \A c \in AnnCols :
                df.rows[i].cell[c].some
                    /\ file.rows[i].cell[c] = df.rows[i].cell[c].val

\* C28: a call of rerun_deepseek that finds no cell in need of update ends
\* at once, with no annotate call, no line appended to the cache and no
\* contexts file written; a pass enters its loop only when a cell needs
\* update, and then writes the whole table to the file it read and, when
\* that file is not contexts_full.csv, the same table to contexts_full.csv.
C28_EarlyReturnOrBothWrites ==
    /\ []((run.mode = "rerun" /\ opc \in {"loop", "written"})
             => SomeCellCallsForUpdate)
    /\ []((run.mode = "rerun" /\ opc = "written") =>
             /\ HoldsTable(FileAt(run.path), contexts)
             /\ run.path # "full" => ~fullCsv.some)
    /\ [][(opc = "idle" /\ opc' = "idle" /\ history' # history) =>
             /\ cache' = cache
             /\ calls' = <<>>
             /\ plainCsv' = plainCsv
             /\ fullCsv' = fullCsv
             /\ ~history'[Len(history')].wrote
             /\ history'[Len(history')].end = "returned" =>
                   \A i \in 1..Len(history'[Len(history')].start.rows) :
                      \A c \in AnnCols :
                         ~CallsForUpdate(history'[Len(history')].start,
                                         history'[Len(history')].force, i, c)]_vars
    /\ [][(run.mode = "rerun" /\ opc = "written" /\ opc' = "idle") =>
             /\ fullCsv'.some /\ HoldsTable(fullCsv'.val, contexts)
             /\ plainCsv' = plainCsv
             /\ run.path # "full" => plainCsv'.val = fullCsv'.val
             /\ history'[Len(history')].wrote]_vars

\* a pass that read contexts.csv wrote both files, and the incremental pass
\* after it found nothing to update and returned at once
C28_Witness ==
    /\ opc = "idle"
    /\ Len(history) = 2
    /\ history[1].mode = "rerun" /\ history[1].path = "plain"
    /\ history[1].wrote
    /\ history[2].mode = "rerun" /\ ~history[2].force
    /\ history[2].end = "returned" /\ ~history[2].wrote
    /\ plainCsv.some /\ fullCsv.some
    /\ plainCsv.val = fullCsv.val
    /\ history[2].start = fullCsv.val

====
